---- MODULE Spec2Model ----
(***************************************************************************)
(* A model of envconfig.Process (src/envconfig.go): the gathering pass     *)
(* over a record definition (gatherInfo, sliceLen) and the resolution loop *)
(* of Process (lookup of canonical key and alias, default, required,       *)
(* processField), followed by CheckDisallowed, Unused (src/unused.go) and  *)
(* the lookup function of a reader (newReaderLookupEnvFunc).               *)
(*                                                                         *)
(* Go strings are sequences of one-character strings, so that upper-casing,*)
(* prefix tests and the index scan of sliceLen work on characters.         *)
(***************************************************************************)
EXTENDS Integers, Sequences, FiniteSets, TLC

VARIABLES
    prefix,     \* the prefix argument of Process
    env,        \* the snapshot taken by environment(): key -> value
    spec,       \* the spec argument: [typ |-> type, val |-> current value]
    spec0,      \* the value of the spec argument when Process was called
    stack,      \* the running calls of gatherInfo, innermost first
    infos,      \* the []varInfo gathered so far, then the one Process ranges over
    idx,        \* position of the range loop of Process in infos
    value,      \* local of the loop body of Process
    ok,         \* local of the loop body of Process
    err,        \* the error Process returns (NoErr for nil)
    pc          \* position inside Process

vars == <<prefix, env, spec, spec0, stack, infos, idx, value, ok, err, pc>>

----------------------------------------------------------------------------
(* Bounds of the model.                                                    *)

\* the largest number of variables in an environment snapshot
MaxEnvVars == 2

----------------------------------------------------------------------------
(* Characters and strings.                                                 *)

UpperLetters == <<"A","B","C","D","E","F","G","H","I","J","K","L","M",
                  "N","O","P","Q","R","S","T","U","V","W","X","Y","Z">>
LowerLetters == <<"a","b","c","d","e","f","g","h","i","j","k","l","m",
                  "n","o","p","q","r","s","t","u","v","w","x","y","z">>
Digits == <<"0","1","2","3","4","5","6","7","8","9">>

IsDigit(c) == \E i \in DOMAIN Digits : Digits[i] = c
DigitVal(c) == (CHOOSE i \in DOMAIN Digits : Digits[i] = c) - 1

\* strings.ToUpper on one character
ToUpperChar(c) ==
    IF \E i \in DOMAIN LowerLetters : LowerLetters[i] = c
    THEN UpperLetters[CHOOSE i \in DOMAIN LowerLetters : LowerLetters[i] = c]
    ELSE c

\* unicode lower(c) as strconv uses it on ASCII letters
ToLowerChar(c) ==
    IF \E i \in DOMAIN UpperLetters : UpperLetters[i] = c
    THEN LowerLetters[CHOOSE i \in DOMAIN UpperLetters : UpperLetters[i] = c]
    ELSE c

ToUpper(s) == [i \in 1..Len(s) |-> ToUpperChar(s[i])]

HasPrefix(s, p) == Len(s) >= Len(p) /\ SubSeq(s, 1, Len(p)) = p

\* the tail of s from the 0-based Go offset n: s[n:]
From(s, n) == SubSeq(s, n + 1, Len(s))

\* strconv.Itoa for a natural number (the %d of processPrefix.format)
RECURSIVE Itoa(_)
Itoa(n) == IF n < 10 THEN <<Digits[n + 1]>>
           ELSE Itoa(n \div 10) \o <<Digits[(n % 10) + 1]>>

\* strings.Join(words, "_")
RECURSIVE Join(_)
Join(words) == IF words = <<>> THEN <<>>
               ELSE IF Len(words) = 1 THEN words[1]
               ELSE words[1] \o <<"_">> \o Join(Tail(words))

----------------------------------------------------------------------------
(* strconv, as processField and isTrue call it.  A parse result is         *)
(* [ok |-> the error is nil, val |-> the value].                           *)

\* strconv.ParseBool
ParseBool(s) ==
    IF s \in { <<"1">>, <<"t">>, <<"T">>, <<"T","R","U","E">>,
               <<"t","r","u","e">>, <<"T","r","u","e">> }
    THEN [ok |-> TRUE, val |-> TRUE]
    ELSE IF s \in { <<"0">>, <<"f">>, <<"F">>, <<"F","A","L","S","E">>,
                    <<"f","a","l","s","e">>, <<"F","a","l","s","e">> }
    THEN [ok |-> TRUE, val |-> FALSE]
    ELSE [ok |-> FALSE, val |-> FALSE]

\* isTrue: the error of ParseBool is dropped, a malformed tag is false
isTrue(s) == ParseBool(s).val

\* the value of one digit character in a base up to 36 (36 when it is none)
CharVal(c) ==
    IF IsDigit(c) THEN DigitVal(c)
    ELSE IF \E i \in DOMAIN LowerLetters : LowerLetters[i] = ToLowerChar(c)
    THEN 9 + (CHOOSE i \in DOMAIN LowerLetters : LowerLetters[i] = ToLowerChar(c))
    ELSE 36

\* strconv.underscoreOK: underscores only between digits or after a base prefix
RECURSIVE UnderscoreScan(_, _, _, _)
UnderscoreScan(s, i, saw, hex) ==
    IF i > Len(s) THEN saw # "_"
    ELSE IF IsDigit(s[i]) \/ (hex /\ CharVal(s[i]) \in 10..15)
         THEN UnderscoreScan(s, i + 1, "0", hex)
    ELSE IF s[i] = "_"
         THEN saw = "0" /\ UnderscoreScan(s, i + 1, "_", hex)
    ELSE IF saw = "_" THEN FALSE
    ELSE UnderscoreScan(s, i + 1, "!", hex)

underscoreOK(s) ==
    LET hasBase == Len(s) >= 2 /\ s[1] = "0" /\ ToLowerChar(s[2]) \in {"b", "o", "x"}
    IN UnderscoreScan(s, IF hasBase THEN 3 ELSE 1, IF hasBase THEN "0" ELSE "^",
                      hasBase /\ ToLowerChar(s[2]) = "x")

\* the digit loop of strconv.ParseUint: -1 for a character that is no digit
\* of the base, else the number (TLC integers do not wrap: the range test
\* is made on the result)
RECURSIVE DigitLoop(_, _, _)
DigitLoop(s, base, n) ==
    IF s = <<>> THEN n
    ELSE IF Head(s) = "_" THEN DigitLoop(Tail(s), base, n)
    ELSE IF CharVal(Head(s)) >= base THEN -1
    ELSE DigitLoop(Tail(s), base, n * base + CharVal(Head(s)))

\* 2^n
RECURSIVE Pow2(_)
Pow2(n) == IF n = 0 THEN 1 ELSE 2 * Pow2(n - 1)

\* The literals of the model are short: a number they denote is below 2^30.
\* A width above 30 bits therefore never rejects one, and TLC (whose integers
\* have 32 bits) is never asked for 2^63.
\* ParseUint without the test against the largest number of the width
FitsAnyWidth(n, bits) == TRUE

FitsUnsigned(n, bits) == bits > 30 \/ n < Pow2(bits)
FitsSigned(neg, n, bits) ==
    bits > 30 \/ (IF neg THEN n <= Pow2(bits - 1) ELSE n < Pow2(bits - 1))

\* strconv.ParseUint(s, 0, bits)
ParseUint(s, bits) ==
    IF s = <<>> THEN [ok |-> FALSE, val |-> 0]
    ELSE LET pre  == s[1] = "0" /\ Len(s) >= 3
                     /\ ToLowerChar(s[2]) \in {"b", "o", "x"}
             base == IF s[1] # "0" THEN 10
                     ELSE IF ~pre THEN 8
                     ELSE IF ToLowerChar(s[2]) = "b" THEN 2
                     ELSE IF ToLowerChar(s[2]) = "o" THEN 8 ELSE 16
             body == IF s[1] # "0" THEN s ELSE IF pre THEN From(s, 2) ELSE From(s, 1)
             n    == DigitLoop(body, base, 0)
             us   == \E i \in 1..Len(body) : body[i] = "_"
         IN IF n < 0 \/ (us /\ ~underscoreOK(s)) \/ ~FitsUnsigned(n, bits)
            THEN [ok |-> FALSE, val |-> 0]
            ELSE [ok |-> TRUE, val |-> n]

\* strconv.ParseInt(s, 0, bits)
ParseInt(s, bits) ==
    IF s = <<>> THEN [ok |-> FALSE, val |-> 0]
    ELSE LET neg  == s[1] = "-"
             body == IF s[1] \in {"+", "-"} THEN Tail(s) ELSE s
             u    == ParseUint(body, 64)
         IN IF ~u.ok \/ ~FitsSigned(neg, u.val, bits)
            THEN [ok |-> FALSE, val |-> 0]
            ELSE [ok |-> TRUE, val |-> IF neg THEN 0 - u.val ELSE u.val]

----------------------------------------------------------------------------
(* Types (what reflect.Type tells gatherInfo and processField) and values. *)
(*                                                                         *)
(* A value is a tuple tree, so that a reflect.Value that refers to storage *)
(* inside the record is a path of indices from the spec argument:          *)
(*   string      the sequence of its characters                            *)
(*   int, bool   the number, the boolean                                   *)
(*   pointer     <<>> when nil, <<target>> otherwise (step 1 dereferences) *)
(*   struct      the tuple of its field values (step i selects field i)    *)
(*   slice       <<is nil, elements>> (steps 2, i select element i)        *)
(*   map         <<is nil, the map>>                                       *)

TString     == [kind |-> "string"]
TBool       == [kind |-> "bool"]
\* name is the Go name of the type: "int", "int8", "uint32", ...
TInt(name, bits)  == [kind |-> "int", name |-> name, bits |-> bits]
TUint(name, bits) == [kind |-> "uint", name |-> name, bits |-> bits]
TPtr(t)     == [kind |-> "ptr", elem |-> t]
TSlice(t)   == [kind |-> "slice", elem |-> t]
TMap(k, v)  == [kind |-> "map", key |-> k, elem |-> v]
TStruct(fs) == [kind |-> "struct", fields |-> fs]

\* a reflect.StructField: exported is what makes CanSet true
Field(name, typ, tag) ==
    [name |-> name, typ |-> typ, tag |-> tag, anonymous |-> FALSE, exported |-> TRUE]

\* a defined type, like  type bracketed string  and its Decode: t is its
\* underlying type, name its name qualified with its package, methods the
\* methods declared on it and refused the strings they return an error for
Named(t, name, methods, refused) ==
    [f \in DOMAIN t \cup {"defined", "methods", "refused"} |->
        IF f = "defined" THEN name
        ELSE IF f = "methods" THEN methods
        ELSE IF f = "refused" THEN refused
        ELSE t[f]]

NilPtr   == <<>>
NilSlice == <<TRUE, <<>>>>

\* the zero value of a type: reflect.Zero, and what reflect.New points to
RECURSIVE Zero(_)
Zero(t) ==
    CASE t.kind = "string" -> <<>>
      [] t.kind = "bool"   -> FALSE
      [] t.kind \in {"int", "uint"} -> 0
      [] t.kind = "ptr"    -> NilPtr
      [] t.kind \in {"slice", "map"} -> NilSlice
      [] t.kind = "struct" -> [i \in 1..Len(t.fields) |-> Zero(t.fields[i].typ)]

\* the storage a reflect.Value refers to
RECURSIVE Get(_, _)
Get(v, path) == IF path = <<>> THEN v ELSE Get(v[Head(path)], Tail(path))

\* reflect.Value.Set on the storage at path
RECURSIVE Put(_, _, _)
Put(v, path, x) ==
    IF path = <<>> THEN x
    ELSE [v EXCEPT ![Head(path)] = Put(v[Head(path)], Tail(path), x)]

----------------------------------------------------------------------------
(* gatherInfo: the key of a field.                                         *)

IsUpper(c) == \E i \in DOMAIN UpperLetters : UpperLetters[i] = c

\* the first position from i on whose character is upper-case or not, as
\* asked, differently from the run that starts at i; Len(s) + 1 if none
RECURSIVE RunEnd(_, _, _)
RunEnd(s, i, up) ==
    IF i > Len(s) \/ IsUpper(s[i]) # up THEN i ELSE RunEnd(s, i + 1, up)

\* gatherRegexp.FindAllStringSubmatch(name, -1), the whole match of each:
\* ([^A-Z]+|[A-Z]+[^A-Z]+|[A-Z]+), alternatives tried in this order
RECURSIVE gatherWords(_, _)
gatherWords(s, i) ==
    IF i > Len(s) THEN <<>>
    ELSE IF ~IsUpper(s[i])
    THEN LET j == RunEnd(s, i, FALSE)
         IN <<SubSeq(s, i, j - 1)>> \o gatherWords(s, j)
    ELSE LET j == RunEnd(s, i, TRUE)
             k == RunEnd(s, j, FALSE)
         IN IF j > Len(s) THEN <<SubSeq(s, i, Len(s))>>
            ELSE <<SubSeq(s, i, k - 1)>> \o gatherWords(s, k)

\* lines 118-122 without the match of acronymRegexp: every word is kept whole
acronymWhole(w) == <<w>>

\* acronymRegexp.FindStringSubmatch(word), ([A-Z]+)([A-Z][^A-Z]+): the two
\* groups when it matches, the word otherwise
acronymWords(w) ==
    LET n == RunEnd(w, 1, TRUE) - 1
    IN IF n >= 2 /\ n < Len(w)
       THEN <<SubSeq(w, 1, n - 1), SubSeq(w, n, Len(w))>>
       ELSE <<w>>

RECURSIVE splitName(_)
splitName(words) ==
    IF words = <<>> THEN <<>>
    ELSE acronymWords(Head(words)) \o splitName(Tail(words))

\* lines 102-140 without lines 129-130: the alias is the second key only,
\* the first key is still derived from the name of the field
varInfoKeyFromName(pfx, ftype, f, isInsideStructSlice) ==
    LET alt   == ToUpper(ftype.tag.envconfig)
        words == gatherWords(ftype.name, 1)
        key1  == IF isTrue(ftype.tag.split_words) /\ Len(words) > 0
                 THEN Join(splitName(words))
                 ELSE ftype.name
        key3  == IF pfx # <<>> THEN pfx \o <<"_">> \o key1 ELSE key1
    IN [ Name  |-> ftype.name,
         Alt   |-> IF alt # <<>> /\ isInsideStructSlice THEN <<>> ELSE alt,
         Key   |-> ToUpper(key3),
         Field |-> f,
         Tags  |-> ftype.tag ]

\* lines 102-140 with lines 129-136 changed: inside an element of a slice of
\* structs the alias is dropped before the key is made from it
varInfoPlainInside(pfx, ftype, f, isInsideStructSlice) ==
    LET alt   == IF isInsideStructSlice THEN <<>> ELSE ToUpper(ftype.tag.envconfig)
        words == gatherWords(ftype.name, 1)
        key1  == IF isTrue(ftype.tag.split_words) /\ Len(words) > 0
                 THEN Join(splitName(words))
                 ELSE ftype.name
        key2  == IF alt # <<>> THEN alt ELSE key1
        key3  == IF pfx # <<>> THEN pfx \o <<"_">> \o key2 ELSE key2
    IN [ Name  |-> ftype.name,
         Alt   |-> alt,
         Key   |-> ToUpper(key3),
         Field |-> f,
         Tags  |-> ftype.tag ]

\* lines 102-140: the varInfo of a field; Field is the reflect.Value f
varInfoOf(pfx, ftype, f, isInsideStructSlice) ==
    LET alt   == ToUpper(ftype.tag.envconfig)
        words == gatherWords(ftype.name, 1)
        key1  == IF isTrue(ftype.tag.split_words) /\ Len(words) > 0
                 THEN Join(splitName(words))
                 ELSE ftype.name
        key2  == IF alt # <<>> THEN alt ELSE key1
        key3  == IF pfx # <<>> THEN pfx \o <<"_">> \o key2 ELSE key2
    IN [ Name  |-> ftype.name,
         Alt   |-> IF alt # <<>> /\ isInsideStructSlice THEN <<>> ELSE alt,
         Key   |-> ToUpper(key3),
         Field |-> f,
         Tags  |-> ftype.tag ]

----------------------------------------------------------------------------
(* sliceLen                                                                *)

\* a nil error
NoErr == [kind |-> "nil"]

ErrInvalidSpecification == [kind |-> "ErrInvalidSpecification"]

\* lines 445-454: the digits of key k from the 1-based position i on
RECURSIVE scanDigits(_, _, _)
scanDigits(k, i, digits) ==
    IF i > Len(k) THEN [bad |-> FALSE, digits |-> digits]
    ELSE IF IsDigit(k[i]) THEN scanDigits(k, i + 1, digits \o <<k[i]>>)
    ELSE IF k[i] = "_" THEN [bad |-> FALSE, digits |-> digits]
    ELSE [bad |-> TRUE, digits |-> digits]

\* strconv.Atoi of a digit string.  Its range error needs 19 digits or more,
\* which no key of the model has.
Atoi(digits) == DigitLoop(digits, 10, 0)

\* lines 440-462 with break in place of continue at line 442: the range
\* ends at the first key that is not under the prefix
RECURSIVE sliceLenScanStops(_, _, _)
sliceLenScanStops(p, order, indexes) ==
    IF order = <<>> THEN [err |-> NoErr, indexes |-> indexes]
    ELSE LET k == Head(order)
             s == scanDigits(k, Len(p) + 1, <<>>)
         IN IF ~HasPrefix(k, p) THEN [err |-> NoErr, indexes |-> indexes]
            ELSE IF s.bad
            THEN [err |-> [kind |-> "sliceLen", why |-> "unexpected char",
                           key |-> k, prefix |-> p], indexes |-> indexes]
            ELSE IF s.digits = <<>>
            THEN [err |-> [kind |-> "sliceLen", why |-> "no digits found",
                           key |-> k, prefix |-> p], indexes |-> indexes]
            ELSE sliceLenScanStops(p, Tail(order), indexes \cup {Atoi(s.digits)})

\* lines 441-463: the range loop over env, in the order the map yields keys
RECURSIVE sliceLenScan(_, _, _)
sliceLenScan(p, order, indexes) ==
    IF order = <<>> THEN [err |-> NoErr, indexes |-> indexes]
    ELSE LET k == Head(order)
             s == scanDigits(k, Len(p) + 1, <<>>)
         IN IF ~HasPrefix(k, p) THEN sliceLenScan(p, Tail(order), indexes)
            ELSE IF s.bad
            THEN [err |-> [kind |-> "sliceLen", why |-> "unexpected char",
                           key |-> k, prefix |-> p], indexes |-> indexes]
            ELSE IF s.digits = <<>>
            THEN [err |-> [kind |-> "sliceLen", why |-> "no digits found",
                           key |-> k, prefix |-> p], indexes |-> indexes]
            ELSE sliceLenScan(p, Tail(order), indexes \cup {Atoi(s.digits)})

\* sliceLen(prefix, env); order is the order in which range yields env's keys
sliceLen(pfx, order) ==
    LET p == pfx \o <<"_">>
        r == sliceLenScan(p, order, {})
        n == Cardinality(r.indexes)
    IN IF r.err # NoErr THEN [l |-> 0, err |-> r.err]
       ELSE IF \E i \in 0..(n - 1) : i \notin r.indexes
       THEN [l |-> 0, err |-> [kind |-> "sliceLen", why |-> "index unset",
                               key |-> <<>>, prefix |-> p]]
       ELSE [l |-> n, err |-> NoErr]

isSliceOfStructs(t) == t.kind = "slice" /\ t.elem.kind = "struct"

isSliceOfStructPtrs(t) ==
    t.kind = "slice" /\ t.elem.kind = "ptr" /\ t.elem.elem.kind = "struct"

----------------------------------------------------------------------------
(* fmt.Sprintf(format, v) for one operand v, an int that is not negative   *)
(* (fmt/print.go doPrintf, fmt/format.go): processPrefix.format puts the   *)
(* prefix inside the format, so a "%" of the prefix starts a verb.  The    *)
(* verbs c and q and the flag # of U are worked out for operands below     *)
(* 256.                                                                    *)

ldigits == <<"0","1","2","3","4","5","6","7","8","9","a","b","c","d","e","f","x">>
udigits == <<"0","1","2","3","4","5","6","7","8","9","A","B","C","D","E","F","X">>

\* the characters U+0020 to U+007E in their order (the grave accent, which
\* cannot be written in a string, as the token of its code point)
Ascii ==
    <<" ","!","\"","#","$","%","&","'","(",")","*","+",",","-",".","/",
      "0","1","2","3","4","5","6","7","8","9",":",";","<","=",">","?",
      "@","A","B","C","D","E","F","G","H","I","J","K","L","M","N","O",
      "P","Q","R","S","T","U","V","W","X","Y","Z","[","\\","]","^","_",
      "U+0060","a","b","c","d","e","f","g","h","i","j","k","l","m","n","o",
      "p","q","r","s","t","u","v","w","x","y","z","{","|","}","~">>

\* the digits of u in a base up to 16, the most significant first
RECURSIVE FormatBits(_, _, _)
FormatBits(u, base, digits) ==
    IF u < base THEN <<digits[u + 1]>>
    ELSE Append(FormatBits(u \div base, base, digits), digits[(u % base) + 1])

\* n times the character c, none when n is not positive
Repeat(c, n) == IF n <= 0 THEN <<>> ELSE [k \in 1..n |-> c]

\* the string of the digits ds with zeros in front up to n digits
ZeroFilled(ds, n) == Repeat("0", n - Len(ds)) \o ds

RECURSIVE Concat(_)
Concat(ds) == IF ds = <<>> THEN "" ELSE Head(ds) \o Concat(Tail(ds))

\* the rune of code point u as one element of a string: the character, or
\* the token of the code point when the character cannot be written
Rune(u) ==
    IF u \in 32..126 THEN Ascii[u - 31]
    ELSE CASE u = 9 -> "\t" [] u = 10 -> "\n" [] u = 12 -> "\f" [] u = 13 -> "\r"
           [] OTHER -> "U+" \o Concat(ZeroFilled(FormatBits(u, 16, udigits), 4))

\* the code points of the characters written as tokens: the control
\* characters and the white space beyond U+0020
TokenCodes ==
    (0..31) \cup (127..160) \cup {5760} \cup (8192..8202)
        \cup {8232, 8233, 8239, 8287, 12288}

\* the code point of a character: a code point up to unicode.MaxRune,
\* U+10FFFF
Ord(c) ==
    IF \E k \in DOMAIN Ascii : Ascii[k] = c
    THEN 31 + CHOOSE k \in DOMAIN Ascii : Ascii[k] = c
    ELSE IF \E u \in TokenCodes : Rune(u) = c
    THEN CHOOSE u \in TokenCodes : Rune(u) = c
    ELSE CHOOSE u \in 161..1114111 : Rune(u) = c

\* strconv.IsPrint, on the code points up to U+00FF and on those of the
\* characters written as tokens, none of which is printable
IsPrint(u) == u \in 32..126 \/ (u >= 161 /\ u # 173 /\ u \notin TokenCodes)

\* strconv.appendEscapedRune: quote is the code point of the quote that is
\* escaped, ascii is ASCIIonly
appendEscapedRune(u, quote, ascii) ==
    IF u = quote \/ u = 92 THEN <<"\\", Rune(u)>>
    ELSE IF u \in 32..126 \/ (~ascii /\ IsPrint(u)) THEN <<Rune(u)>>
    ELSE CASE u = 7  -> <<"\\","a">>
           [] u = 8  -> <<"\\","b">>
           [] u = 12 -> <<"\\","f">>
           [] u = 10 -> <<"\\","n">>
           [] u = 13 -> <<"\\","r">>
           [] u = 9  -> <<"\\","t">>
           [] u = 11 -> <<"\\","v">>
           [] OTHER ->
                <<"\\", IF u < 128 THEN "x" ELSE IF u < 65536 THEN "u" ELSE "U">>
                  \o ZeroFilled(FormatBits(u, 16, ldigits),
                                IF u < 128 THEN 2 ELSE IF u < 65536 THEN 4 ELSE 8)

\* strconv.QuoteRune and QuoteRuneToASCII without the quotes around
QuotedRune(u, ascii) == appendEscapedRune(u, 39, ascii)

\* a byte above 0x7f that is no part of a rune, as one element of a string
Byte(v) == "\\x" \o Concat(ZeroFilled(FormatBits(v, 16, ldigits), 2))

\* strconv.Quote: the string between double quotes, with its quotes,
\* backslashes and unprintable characters escaped
RECURSIVE escapedRunes(_)
escapedRunes(s) ==
    IF s = <<>> THEN <<>>
    ELSE appendEscapedRune(Ord(Head(s)), 34, FALSE) \o escapedRunes(Tail(s))

Quote(s) == <<"\"">> \o escapedRunes(s) \o <<"\"">>

----------------------------------------------------------------------------
(* Struct tags (reflect.StructTag): a tag is the text written between the  *)
(* back quotes after the field, and Tag.Get(key) reads a value out of it.  *)

NoValue == [value |-> <<>>, ok |-> FALSE]

\* the number that the hexadecimal or octal digits ds denote in base b
RECURSIVE numberIn(_, _)
numberIn(ds, b) ==
    IF ds = <<>> THEN 0
    ELSE b * numberIn(SubSeq(ds, 1, Len(ds) - 1), b) + CharVal(ds[Len(ds)])

\* an escape that is not one
BadEscape == [ok |-> FALSE, c |-> "", n |-> 0]

\* the escape stands for the character x and takes n characters
escapeOf(x, n) == [ok |-> TRUE, c |-> x, n |-> n]

\* the value v of the digits of an escape of n characters: \x and the
\* octal escape give a byte (at most 255), \u and \U a rune that must be
\* valid
escapeValue(kind, v, n) ==
    IF kind \in {"x", "o"}
    THEN (IF v > 255 THEN BadEscape
          ELSE escapeOf(IF v < 128 THEN Rune(v) ELSE Byte(v), n))
    ELSE IF v > 1114111 \/ v \in 55296..57343 THEN BadEscape
    ELSE escapeOf(Rune(v), n)

\* strconv.UnquoteChar at an escape of digits: the digits are those of s
\* from position from on, up to position n, in base b
unquoteDigits(s, kind, from, n, b) ==
    IF Len(s) < n \/ \E k \in from..n : CharVal(s[k]) >= b
    THEN BadEscape
    ELSE escapeValue(kind, numberIn(SubSeq(s, from, n), b), n)

\* the characters that a backslash and one letter stand for
SimpleEscapes ==
    [a |-> Rune(7), b |-> Rune(8), f |-> "\f", n |-> "\n", r |-> "\r",
     t |-> "\t", v |-> Rune(11)]

\* strconv.UnquoteChar at a backslash, for a string between double quotes:
\* the character the escape stands for and the number of characters it
\* takes, the backslash included
UnquoteChar(s) ==
    IF Len(s) <= 1 THEN BadEscape
    ELSE CASE s[2] \in DOMAIN SimpleEscapes -> escapeOf(SimpleEscapes[s[2]], 2)
           [] s[2] \in {"\\", "\""} -> escapeOf(s[2], 2)
           [] s[2] \in {"x", "u", "U"} \/ (IsDigit(s[2]) /\ DigitVal(s[2]) <= 7) ->
                unquoteDigits(s,
                              IF s[2] \in {"x", "u", "U"} THEN s[2] ELSE "o",
                              IF s[2] \in {"x", "u", "U"} THEN 3 ELSE 2,
                              CASE s[2] = "x" -> 4 [] s[2] = "u" -> 6
                                [] s[2] = "U" -> 10 [] OTHER -> 4,
                              IF s[2] \in {"x", "u", "U"} THEN 16 ELSE 8)
           [] OTHER -> BadEscape

\* the loop of strconv.Unquote over what follows the opening quote: up to
\* the closing quote, which must end the string
RECURSIVE unquoteLoop(_, _)
unquoteLoop(in, out) ==
    IF in = <<>> \/ Head(in) = "\n" THEN NoValue
    ELSE IF Head(in) = "\"" THEN (IF Len(in) = 1 THEN [value |-> out, ok |-> TRUE]
                                   ELSE NoValue)
    ELSE LET r == IF Head(in) = "\\" THEN UnquoteChar(in) ELSE escapeOf(Head(in), 1)
         IN IF ~r.ok THEN NoValue
            ELSE unquoteLoop(SubSeq(in, r.n + 1, Len(in)), Append(out, r.c))

\* strconv.Unquote of a string between double quotes
Unquote(q) ==
    IF Len(q) < 2 \/ Head(q) # "\"" THEN NoValue ELSE unquoteLoop(Tail(q), <<>>)

\* a character that ends the name of a key: a blank or a control character
\* (tag[i] > ' ' fails), ":", a quote, 0x7f
NameEnds == {" ", ":", "\""} \cup { Rune(u) : u \in (0..31) \cup {127} }

endsName(c) == c \in NameEnds

\* the blanks t begins with, and the characters of the name it begins with
RECURSIVE blanks(_), nameLen(_)
blanks(t) == IF t = <<>> \/ Head(t) # " " THEN 0 ELSE 1 + blanks(Tail(t))
nameLen(t) == IF t = <<>> \/ endsName(Head(t)) THEN 0 ELSE 1 + nameLen(Tail(t))

\* the scan of the quoted value of t from the 0-based position i on: the
\* position of the closing quote, a backslash skipping the next character
RECURSIVE quoteEnd(_, _)
quoteEnd(t, i) ==
    IF i >= Len(t) \/ t[i + 1] = "\"" THEN i
    ELSE quoteEnd(t, i + (IF t[i + 1] = "\\" THEN 2 ELSE 1))

\* reflect.StructTag.Lookup
RECURSIVE Lookup(_, _)
Lookup(tag, key) ==
    LET t1 == SubSeq(tag, blanks(tag) + 1, Len(tag))
        i  == nameLen(t1)
    IN IF t1 = <<>> THEN NoValue
       ELSE IF i = 0 \/ i + 1 >= Len(t1) \/ t1[i + 1] # ":" \/ t1[i + 2] # "\""
       THEN NoValue
       ELSE LET t2 == SubSeq(t1, i + 2, Len(t1))
                e  == quoteEnd(t2, 1)
            IN IF e >= Len(t2) THEN NoValue
               ELSE IF SubSeq(t1, 1, i) = key THEN Unquote(SubSeq(t2, 1, e + 1))
               ELSE Lookup(SubSeq(t2, e + 2, Len(t2)), key)

\* reflect.StructTag.Get
TagGet(tag, key) == Lookup(tag, key).value

keyEnvconfig  == <<"e","n","v","c","o","n","f","i","g">>
keyDefault    == <<"d","e","f","a","u","l","t">>
keyRequired   == <<"r","e","q","u","i","r","e","d">>
keyIgnored    == <<"i","g","n","o","r","e","d">>
keySplitWords == <<"s","p","l","i","t","_","w","o","r","d","s">>

\* the keys of a tag that envconfig reads (lines 86, 107, 114, 251, 256)
TagKeys ==
    [envconfig |-> keyEnvconfig, default |-> keyDefault, required |-> keyRequired,
     ignored |-> keyIgnored, split_words |-> keySplitWords]

\* the tag of a field: its text as it is written, and what Tag.Get gives
\* for the keys envconfig reads ("" for a key that is not written)
StructTag(text) ==
    [k \in DOMAIN TagKeys |-> TagGet(text, TagKeys[k])] @@ [text |-> text]

\* no tag is written: Tag.Get gives "" for every key
NoTag ==
    [text |-> <<>>, envconfig |-> <<>>, default |-> <<>>, required |-> <<>>,
     ignored |-> <<>>, split_words |-> <<>>]

\* the text  key:"value" key:"value" ...  of the pairs of a key and a value
\* of letters and digits, in the order given; a pair with the value "" is
\* not written
RECURSIVE Written(_)
Written(pairs) ==
    IF pairs = <<>> THEN <<>>
    ELSE LET rest == Written(Tail(pairs))
             kv   == Head(pairs)
         IN IF kv[2] = <<>> THEN rest
            ELSE kv[1] \o <<":", "\"">> \o kv[2] \o <<"\"">>
                   \o (IF rest = <<>> THEN <<>> ELSE <<" ">> \o rest)

\* the tag written with these pairs
Tag(pairs) == StructTag(Written(pairs))

\* reflect.Type.String: a defined type gives its name qualified with its
\* package, whatever its underlying type; a struct type without a name
\* gives  struct { F T "tag"; G U }  (an embedded field without its name,
\* the tag as it is written, quoted by strconv.Quote, none for a field
\* without tag) and  struct {}  without fields; a reference to a defined
\* type gives the name of that type
RECURSIVE TypeString(_), FieldStrings(_, _)
TypeString(t) ==
    CASE "defined" \in DOMAIN t -> <<t.defined>>
      [] t.kind = "ref"    -> <<t.name>>
      [] t.kind = "string" -> <<"string">>
      [] t.kind = "bool"   -> <<"bool">>
      [] t.kind \in {"int", "uint"} -> <<t.name>>
      [] t.kind = "ptr"    -> <<"*">> \o TypeString(t.elem)
      [] t.kind = "slice"  -> <<"[]">> \o TypeString(t.elem)
      [] t.kind = "map"    -> <<"map[">> \o TypeString(t.key) \o <<"]">> \o TypeString(t.elem)
      [] t.kind = "struct" ->
           IF t.fields = <<>> THEN <<"struct", " ", "{", "}">>
           ELSE <<"struct", " ", "{", " ">> \o FieldStrings(t.fields, 1) \o <<" ", "}">>

\* the fields of a struct type from field k on, with "; " between them
FieldStrings(fs, k) ==
    LET f == fs[k]
        one == (IF f.anonymous THEN <<>> ELSE f.name \o <<" ">>)
                 \o TypeString(f.typ)
                 \o (IF f.tag.text = <<>> THEN <<>>
                     ELSE <<" ">> \o Quote(f.tag.text))
    IN IF k = Len(fs) THEN one ELSE one \o <<";", " ">> \o FieldStrings(fs, k + 1)

----------------------------------------------------------------------------
\* fmt.fmt after clearflags
NoFlags ==
    [sharp |-> FALSE, zero |-> FALSE, plus |-> FALSE, minus |-> FALSE,
     space |-> FALSE, wid |-> 0, widPresent |-> FALSE,
     prec |-> 0, precPresent |-> FALSE]

\* fmt.pad: b in a field of the width; zeros pad only to the left, and only
\* where the caller did not switch them off (zeroOK)
pad(b, f, zeroOK) ==
    LET n == f.wid - Len(b)
        c == IF zeroOK /\ f.zero /\ ~f.minus THEN "0" ELSE " "
    IN IF ~f.widPresent \/ f.wid = 0 THEN b
       ELSE IF f.minus THEN b \o Repeat(c, n)
       ELSE Repeat(c, n) \o b

\* fmt.fmtInteger for a value that is not negative
fmtInteger(u, base, verb, digits, f) ==
    IF f.precPresent /\ f.prec = 0 /\ u = 0 THEN Repeat(" ", f.wid)
    ELSE LET prec == IF f.precPresent THEN f.prec
                     ELSE IF f.zero /\ ~f.minus /\ f.widPresent
                     THEN f.wid - (IF f.plus \/ f.space THEN 1 ELSE 0)
                     ELSE 0
             num == ZeroFilled(FormatBits(u, base, digits), prec)
             alt == IF ~f.sharp THEN num
                    ELSE CASE base = 2  -> <<"0","b">> \o num
                           [] base = 8  -> IF num[1] # "0" THEN <<"0">> \o num ELSE num
                           [] base = 16 -> <<"0", digits[17]>> \o num
                           [] OTHER -> num
             oct == IF verb = "O" THEN <<"0","o">> \o alt ELSE alt
             sgn == IF f.plus THEN <<"+">> \o oct
                    ELSE IF f.space THEN <<" ">> \o oct
                    ELSE oct
         IN pad(sgn, f, FALSE)

\* fmt.fmtUnicode
fmtUnicode(u, f) ==
    LET prec == IF f.precPresent /\ f.prec > 4 THEN f.prec ELSE 4
        num  == <<"U","+">> \o ZeroFilled(FormatBits(u, 16, udigits), prec)
    IN pad(IF f.sharp /\ IsPrint(u) THEN num \o <<" ","'",Rune(u),"'">> ELSE num,
           f, FALSE)

\* fmt.fmtQc: the quoted rune, in ASCII with the flag +; the flag # changes
\* nothing for an integer
fmtQc(u, f) ==
    pad(<<"'">> \o QuotedRune(u, f.plus) \o <<"'">>, f, TRUE)

\* fmt.fmtS of the name of the type of the operand, for the verb T
fmtT(f) ==
    LET s == <<"i","n","t">>
    IN pad(IF f.precPresent THEN SubSeq(s, 1, IF f.prec < 3 THEN f.prec ELSE 3) ELSE s,
           f, TRUE)

\* pp.badVerb: the operand is printed with the verb v and the flags as they
\* are
badVerb(u, verb, f) ==
    <<"%","!",verb,"(","i","n","t","=">> \o fmtInteger(u, 10, "v", ldigits, f) \o <<")">>

\* pp.printArg for an int
printArg(u, verb, f) ==
    CASE verb = "T" -> fmtT(f)
      [] verb \in {"v", "d"} -> fmtInteger(u, 10, verb, ldigits, f)
      [] verb = "b" -> fmtInteger(u, 2, verb, ldigits, f)
      [] verb \in {"o", "O"} -> fmtInteger(u, 8, verb, ldigits, f)
      [] verb = "x" -> fmtInteger(u, 16, verb, ldigits, f)
      [] verb = "X" -> fmtInteger(u, 16, verb, udigits, f)
      [] verb = "c" -> pad(<<Rune(u)>>, f, TRUE)
      [] verb = "q" -> fmtQc(u, f)
      [] verb = "U" -> fmtUnicode(u, f)
      [] OTHER -> badVerb(u, verb, f)

\* fmt.parsenum from position i up to position end, which it leaves out;
\* a number above 10^6 gives up on the rest of the format
RECURSIVE parsenum(_, _, _, _, _)
parsenum(fs, i, end, num, isnum) ==
    IF i >= end \/ ~IsDigit(fs[i]) THEN [num |-> num, isnum |-> isnum, i |-> i]
    ELSE IF num > 1000000 THEN [num |-> 0, isnum |-> FALSE, i |-> end]
    ELSE parsenum(fs, i + 1, end, num * 10 + DigitVal(fs[i]), TRUE)

\* fmt.parseArgNumber of the format from position i, where a "[" is: the
\* index of the operand, how many characters were read, whether it is one
parseArgNumber(fs, i, end) ==
    IF end - i < 3 \/ ~\E k \in (i + 1)..(end - 1) : fs[k] = "]"
    THEN [index |-> 0, wid |-> 1, ok |-> FALSE]
    ELSE LET k == CHOOSE k \in (i + 1)..(end - 1) :
                     /\ fs[k] = "]"
                     /\ \A j \in (i + 1)..(k - 1) : fs[j] # "]"
             n == parsenum(fs, i + 1, k, 0, FALSE)
         IN IF ~n.isnum \/ n.i # k
            THEN [index |-> 0, wid |-> k - i + 1, ok |-> FALSE]
            ELSE [index |-> n.num - 1, wid |-> k - i + 1, ok |-> TRUE]

\* pp.argNumber with one operand: good is FALSE when the index is none of
\* an operand, reordered is TRUE when there was a "["
argNumber(fs, i, argNum, end) ==
    IF i >= end \/ fs[i] # "["
    THEN [argNum |-> argNum, i |-> i, found |-> FALSE, good |-> TRUE,
          reordered |-> FALSE]
    ELSE LET p == parseArgNumber(fs, i, end)
         IN IF p.ok /\ p.index = 0
            THEN [argNum |-> 0, i |-> i + p.wid, found |-> TRUE, good |-> TRUE,
                  reordered |-> TRUE]
            ELSE [argNum |-> argNum, i |-> i + p.wid, found |-> p.ok,
                  good |-> FALSE, reordered |-> TRUE]

\* fmt.intFromArg with one operand
intFromArg(u, argNum) ==
    IF argNum >= 1 THEN [num |-> 0, isInt |-> FALSE, argNum |-> argNum]
    ELSE IF u > 1000000 THEN [num |-> 0, isInt |-> FALSE, argNum |-> argNum + 1]
    ELSE [num |-> u, isInt |-> TRUE, argNum |-> argNum + 1]

\* the flags that follow a "%"
RECURSIVE scanFlags(_, _, _)
scanFlags(fs, i, f) ==
    IF i > Len(fs) THEN [i |-> i, f |-> f]
    ELSE CASE fs[i] = "#" -> scanFlags(fs, i + 1, [f EXCEPT !.sharp = TRUE])
           [] fs[i] = "0" -> scanFlags(fs, i + 1, [f EXCEPT !.zero = TRUE])
           [] fs[i] = "+" -> scanFlags(fs, i + 1, [f EXCEPT !.plus = TRUE])
           [] fs[i] = "-" -> scanFlags(fs, i + 1, [f EXCEPT !.minus = TRUE])
           [] fs[i] = " " -> scanFlags(fs, i + 1, [f EXCEPT !.space = TRUE])
           [] OTHER -> [i |-> i, f |-> f]

\* the width of a directive, after the flags and the index a1 that may
\* precede it: a "*" takes it from the operand, else it is read as a number
widthOf(fs, u, a1, end) ==
    IF a1.i < end /\ fs[a1.i] = "*"
    THEN LET wa == intFromArg(u, a1.argNum)
         IN [i |-> a1.i + 1, wid |-> wa.num, present |-> wa.isInt,
             argNum |-> wa.argNum, after |-> FALSE, good |-> a1.good,
             out |-> IF wa.isInt THEN <<>>
                     ELSE <<"%","!","(","B","A","D","W","I","D","T","H",")">>]
    ELSE LET wn == parsenum(fs, a1.i, end, 0, FALSE)
         IN [i |-> wn.i, wid |-> wn.num, present |-> wn.isnum,
             argNum |-> a1.argNum, after |-> a1.found,
             good |-> a1.good /\ ~(a1.found /\ wn.isnum), out |-> <<>>]

\* the precision after a ".", with a2 the index that may precede it
precisionAt(fs, u, w, a2, end) ==
    IF a2.i < end /\ fs[a2.i] = "*"
    THEN LET pa == intFromArg(u, a2.argNum)
         IN [i |-> a2.i + 1, prec |-> pa.num, present |-> pa.isInt,
             argNum |-> pa.argNum, after |-> FALSE,
             good |-> w.good /\ ~w.after /\ a2.good,
             reordered |-> a2.reordered,
             out |-> IF pa.isInt THEN <<>>
                     ELSE <<"%","!","(","B","A","D","P","R","E","C",")">>]
    ELSE LET pn == parsenum(fs, a2.i, end, 0, FALSE)
         IN [i |-> pn.i, prec |-> pn.num, present |-> TRUE,
             argNum |-> a2.argNum, after |-> a2.found,
             good |-> w.good /\ ~w.after /\ a2.good,
             reordered |-> a2.reordered, out |-> <<>>]

\* the precision of a directive whose width is w
precisionOf(fs, u, w, end) ==
    IF ~(w.i < end /\ fs[w.i] = ".")
    THEN [i |-> w.i, prec |-> 0, present |-> FALSE, argNum |-> w.argNum,
          after |-> w.after, good |-> w.good, reordered |-> FALSE,
          out |-> <<>>]
    ELSE precisionAt(fs, u, w, argNumber(fs, w.i + 1, w.argNum, end), end)

\* the index that may precede the verb
verbIndex(fs, p, end) ==
    IF p.after
    THEN [argNum |-> p.argNum, i |-> p.i, found |-> TRUE, good |-> TRUE,
          reordered |-> FALSE]
    ELSE argNumber(fs, p.i, p.argNum, end)

\* the verb of a directive: what is written for it, where the format goes
\* on, the next operand. The case of verb w falls through to that of verb
\* v, which moves the flags # and + to sharpV and plusV: neither acts on an
\* integer
verbAt(fs, u, f, good, reordered, sofar, a3, end) ==
    IF a3.i >= end
    THEN [out |-> sofar \o <<"%","!","(","N","O","V","E","R","B",")">>,
          i |-> end, argNum |-> a3.argNum, reordered |-> reordered]
    ELSE [i |-> a3.i + 1, reordered |-> reordered,
          argNum |-> IF fs[a3.i] = "%" \/ ~good \/ a3.argNum >= 1
                     THEN a3.argNum ELSE a3.argNum + 1,
          out |-> sofar \o
             CASE fs[a3.i] = "%" -> <<"%">>
               [] fs[a3.i] # "%" /\ ~good ->
                    <<"%","!",fs[a3.i],"(","B","A","D","I","N","D","E","X",")">>
               [] fs[a3.i] # "%" /\ good /\ a3.argNum >= 1 ->
                    <<"%","!",fs[a3.i],"(","M","I","S","S","I","N","G",")">>
               [] fs[a3.i] \in {"v", "w"} /\ good /\ a3.argNum < 1 ->
                    printArg(u, fs[a3.i],
                             [f EXCEPT !.sharp = FALSE, !.plus = FALSE])
               [] OTHER -> printArg(u, fs[a3.i], f)]

\* a directive whose flags fl, first index a1, width w and precision p are
\* read
directiveVerb(fs, u, fl, a1, w, p, a3, end) ==
    verbAt(fs, u,
           [fl.f EXCEPT !.wid = w.wid, !.widPresent = w.present,
                        !.prec = p.prec, !.precPresent = p.present],
           p.good /\ a3.good,
           a1.reordered \/ p.reordered \/ a3.reordered,
           w.out \o p.out, a3, end)

directivePrecision(fs, u, fl, a1, w, p, end) ==
    directiveVerb(fs, u, fl, a1, w, p, verbIndex(fs, p, end), end)

directiveWidth(fs, u, fl, a1, w, end) ==
    directivePrecision(fs, u, fl, a1, w, precisionOf(fs, u, w, end), end)

directiveIndex(fs, u, fl, a1, end) ==
    directiveWidth(fs, u, fl, a1, widthOf(fs, u, a1, end), end)

directiveFlags(fs, u, argNum, fl, end) ==
    directiveIndex(fs, u, fl, argNumber(fs, fl.i, argNum, end), end)

\* one pass of the loop of doPrintf at a "%", from the position i after it:
\* what is written, where the format goes on, the next operand
directive(fs, u, i, argNum) ==
    directiveFlags(fs, u, argNum, scanFlags(fs, i, NoFlags), Len(fs) + 1)

\* doPrintf from position i on; an operand no verb took is reported at the
\* end unless an index was used
RECURSIVE doPrintf(_, _, _, _, _)
doPrintf(fs, u, i, argNum, reordered) ==
    IF i > Len(fs)
    THEN IF ~reordered /\ argNum < 1
         THEN <<"%","!","(","E","X","T","R","A"," ","i","n","t","=">>
                 \o fmtInteger(u, 10, "v", ldigits, NoFlags) \o <<")">>
         ELSE <<>>
    ELSE IF fs[i] # "%" THEN <<fs[i]>> \o doPrintf(fs, u, i + 1, argNum, reordered)
    ELSE LET d == directive(fs, u, i + 1, argNum)
         IN d.out \o doPrintf(fs, u, d.i, d.argNum, reordered \/ d.reordered)

Sprintf(fs, u) == doPrintf(fs, u, 1, 0, FALSE)

\* processPrefix.format: fmt.Sprintf(string(p)+"_%d", v)
format(p, i) == Sprintf(p \o <<"_","%","d">>, i)

\* usagePrefix{p, "[N]"}.format: p.prefix + "_" + p.placeholder, whatever v
usageFormat(p, i) == p \o <<"_">> \o <<"[","N","]">>

----------------------------------------------------------------------------
(* gatherInfo, one field at a time.  Its recursion is the stack of the     *)
(* model: a frame is one running call of gatherInfo (kind "fields": the    *)
(* loop of lines 83-205 over the fields of the struct at path, i the next  *)
(* field) or one running loop over the elements of a slice of structs      *)
(* (kind "elems": lines 186-201, i the next element, 0-based).  A frame    *)
(* carries the arguments isInsideStructSlice and forUsage of its call.     *)

Frame(kind, pfx, typ, path, i, isInsideStructSlice, forUsage) ==
    [kind |-> kind, prefix |-> pfx, typ |-> typ, path |-> path, i |-> i,
     inside |-> isInsideStructSlice, forUsage |-> forUsage]

\* A type that refers to itself is written with a reference to its name:
\*   type Node struct { Name string; Next *Node }
TRef(name) == [kind |-> "ref", name |-> name]

NodeT ==
    Named(TStruct(<< Field(<<"N","a","m","e">>, TString, NoTag),
                     Field(<<"N","e","x","t">>, TPtr(TRef("envconfig.Node")),
                           NoTag) >>),
          "envconfig.Node", {}, {})

\* reflect.Type.Elem of a pointer type
Elem(t) == IF t.elem.kind = "ref" THEN NodeT ELSE t.elem

\* the nested calls of gatherInfo the stack of the goroutine has room for
\* (the runtime ends the program with a fatal error beyond it); more than
\* the nesting of any type that does not refer to itself
MaxDepth == 6

\* lines 90-100: follow the pointers of a field.  typ and rel are the type
\* of f and the path from the field to f after the loop, val is the field
\* after the loop allocated the nil pointers to structs on the way.
RECURSIVE derefField(_, _)
derefField(t, v) ==
    IF t.kind # "ptr" THEN [typ |-> t, rel |-> <<>>, val |-> v]
    ELSE IF v = NilPtr /\ Elem(t).kind # "struct"
    THEN [typ |-> t, rel |-> <<>>, val |-> v]
    ELSE LET r == derefField(Elem(t), IF v = NilPtr THEN Zero(Elem(t)) ELSE v[1])
         IN [typ |-> r.typ, rel |-> <<1>> \o r.rel, val |-> <<r.val>>]

\* lines 172-182: the length of a slice of structs and the prefix of its
\* elements; order is the order in which the range of sliceLen yields keys
sliceInfo(info, order, isInsideStructSlice) ==
    LET first  == sliceLen(info.Key, order)
        useAlt == /\ first.err = NoErr
                  /\ first.l = 0
                  /\ info.Alt # <<>>
                  /\ ~isInsideStructSlice
        second == sliceLen(info.Alt, order)
    IN IF useAlt THEN [l |-> second.l, err |-> second.err, prefix |-> info.Alt]
       ELSE [l |-> first.l, err |-> first.err, prefix |-> info.Key]

\* lines 164-169: for usage the environment is not read, one element stands
\* for all and its prefix carries the placeholder
usageSliceInfo(info) == [l |-> 1, err |-> NoErr, prefix |-> info.Key]

\* line 185: reflect.MakeSlice(f.Type(), l, l)
MakeSlice(t, l) == <<FALSE, [j \in 1..l |-> Zero(t.elem)]>>

----------------------------------------------------------------------------
(* processField.  A result is [ok, val]: whether the error is nil, and the *)
(* value of the storage of field afterwards.  The types of the model have  *)
(* no float and no time.Duration.                                          *)

\* unicode.IsSpace, which strings.TrimSpace asks of every rune.  A rune that
\* cannot be written in a string of one character is the token of its code
\* point: one element of the sequence, as the rune is one rune of the string.
Whitespace ==
    {" ", "\t", "\n", "\r", "\f", "U+000B", "U+0085", "U+00A0", "U+1680",
     "U+2000", "U+2001", "U+2002", "U+2003", "U+2004", "U+2005", "U+2006",
     "U+2007", "U+2008", "U+2009", "U+200A", "U+2028", "U+2029", "U+202F",
     "U+205F", "U+3000"}

\* len(strings.TrimSpace(value)) != 0
NotBlank(s) == \E i \in 1..Len(s) : s[i] \notin Whitespace

\* strings.Split(s, sep) for a separator of one character
RECURSIVE Split(_, _, _)
Split(s, sep, cur) ==
    IF s = <<>> THEN <<cur>>
    ELSE IF Head(s) = sep THEN <<cur>> \o Split(Tail(s), sep, <<>>)
    ELSE Split(Tail(s), sep, Append(cur, Head(s)))

RECURSIVE processField(_, _, _)
RECURSIVE processElems(_, _, _)
RECURSIVE processPairs(_, _, _)

\* lines 364-369: the elements of a slice, each from the zero value
processElems(vals, et, acc) ==
    IF vals = <<>> THEN [ok |-> TRUE, val |-> acc, panic |-> FALSE]
    ELSE LET r == processField(Head(vals), et, Zero(et))
         IN IF ~r.ok THEN [ok |-> FALSE, val |-> acc, panic |-> r.panic]
            ELSE processElems(Tail(vals), et, Append(acc, r.val))

\* lines 376-392 with the test len(kvpair) < 2 at line 378: what follows a
\* second ":" is dropped
RECURSIVE processPairsLoose(_, _, _)
processPairsLoose(pairs, t, mp) ==
    IF pairs = <<>> THEN [ok |-> TRUE, val |-> mp, panic |-> FALSE]
    ELSE LET kvpair == Split(Head(pairs), ":", <<>>)
             k == processField(kvpair[1], t.key, Zero(t.key))
             v == processField(kvpair[2], t.elem, Zero(t.elem))
         IN IF Len(kvpair) < 2 THEN [ok |-> FALSE, val |-> mp, panic |-> FALSE]
            ELSE IF ~k.ok THEN [ok |-> FALSE, val |-> mp, panic |-> k.panic]
            ELSE IF ~v.ok THEN [ok |-> FALSE, val |-> mp, panic |-> v.panic]
            ELSE processPairsLoose(Tail(pairs), t,
                     [x \in DOMAIN mp \cup {k.val} |->
                         IF x = k.val THEN v.val ELSE mp[x]])

\* lines 376-392: the pairs of a map; mp is the map made so far, a function
processPairs(pairs, t, mp) ==
    IF pairs = <<>> THEN [ok |-> TRUE, val |-> mp, panic |-> FALSE]
    ELSE LET kvpair == Split(Head(pairs), ":", <<>>)
             k == processField(kvpair[1], t.key, Zero(t.key))
             v == processField(kvpair[2], t.elem, Zero(t.elem))
         IN IF Len(kvpair) # 2 THEN [ok |-> FALSE, val |-> mp, panic |-> FALSE]
            ELSE IF ~k.ok THEN [ok |-> FALSE, val |-> mp, panic |-> k.panic]
            ELSE IF ~v.ok THEN [ok |-> FALSE, val |-> mp, panic |-> v.panic]
            ELSE processPairs(Tail(pairs), t,
                     [x \in DOMAIN mp \cup {k.val} |->
                         IF x = k.val THEN v.val ELSE mp[x]])

\* the methods among Decode, Set, UnmarshalText and UnmarshalBinary that
\* interfaceFrom finds on a field of type t: it asks the field and then the
\* pointer to the field, so the methods of a named type are found whatever
\* their receiver; for a field that is a pointer to a named type it asks the
\* pointer itself, whose method set holds every method of the named type.
\* A type constructed without methods has none.
methodsOf(t) ==
    IF "methods" \in DOMAIN t THEN t.methods
    ELSE IF t.kind = "ptr" /\ "methods" \in DOMAIN t.elem THEN t.elem.methods
    ELSE {}

\* the strings the methods of the type of a field return an error for: the
\* methods are the code of the caller, given with the type
refusedBy(t) ==
    IF "refused" \in DOMAIN t THEN t.refused
    ELSE IF t.kind = "ptr" /\ "refused" \in DOMAIN t.elem THEN t.elem.refused
    ELSE {}

\* lines 293-309: decoderFrom, setterFrom, textUnmarshaler, binaryUnmarshaler
\* in this order; "" when the field has none of the methods
methodOrder == <<"Decode", "Set", "UnmarshalText", "UnmarshalBinary">>

\* lines 293-309 with setterFrom asked before decoderFrom
customSetFirst(t) ==
    IF "Set" \in methodsOf(t) THEN "Set"
    ELSE IF "Decode" \in methodsOf(t) THEN "Decode"
    ELSE IF "UnmarshalText" \in methodsOf(t) THEN "UnmarshalText"
    ELSE IF "UnmarshalBinary" \in methodsOf(t) THEN "UnmarshalBinary"
    ELSE ""

custom(t) ==
    IF methodsOf(t) = {} THEN ""
    ELSE methodOrder[CHOOSE i \in DOMAIN methodOrder :
                        /\ methodOrder[i] \in methodsOf(t)
                        /\ \A j \in 1..(i - 1) : methodOrder[j] \notin methodsOf(t)]

\* what a method that returns nil leaves in its receiver: the method is the
\* code of the caller, the model records which one was called with which
\* string
Decoded(method, val) == <<method, val>>

\* processField(value, field): t is the type of field and cur its value
processField(val, t, cur) ==
  IF custom(t) # ""
  THEN \* lines 293-309.  The method found on a nil pointer is called with the
       \* nil pointer as its receiver, which it dereferences to store what it
       \* decoded (envconfig_test.go 765-766): the call panics
       IF t.kind = "ptr" /\ cur = NilPtr
       THEN [ok |-> FALSE, val |-> cur, panic |-> TRUE]
       ELSE IF val \in refusedBy(t)
       THEN [ok |-> FALSE, val |-> cur, panic |-> FALSE]
       ELSE [ok |-> TRUE, panic |-> FALSE,
             val |-> IF t.kind = "ptr" THEN <<Decoded(custom(t), val)>>
                     ELSE Decoded(custom(t), val)]
  ELSE
    LET typ == IF t.kind = "ptr" THEN t.elem ELSE t
        \* lines 311-317: a nil pointer is set to a new zero value first
        tgt == IF t.kind # "ptr" THEN cur
               ELSE IF cur = NilPtr THEN Zero(typ) ELSE cur[1]
        r == CASE typ.kind = "string" -> [ok |-> TRUE, val |-> val, panic |-> FALSE]
               [] typ.kind = "int" ->
                    LET p == ParseInt(val, typ.bits)
                    IN [ok |-> p.ok, val |-> IF p.ok THEN p.val ELSE tgt,
                        panic |-> FALSE]
               [] typ.kind = "uint" ->
                    LET p == ParseUint(val, typ.bits)
                    IN [ok |-> p.ok, val |-> IF p.ok THEN p.val ELSE tgt,
                        panic |-> FALSE]
               [] typ.kind = "bool" ->
                    LET p == ParseBool(val)
                    IN [ok |-> p.ok, val |-> IF p.ok THEN p.val ELSE tgt,
                        panic |-> FALSE]
               [] typ.kind = "slice" ->
                    \* lines 359-360 and 371: the bytes of the value are a
                    \* []uint8, which Set assigns to a field whose element
                    \* type is uint8 and panics on for a field whose element
                    \* type is a defined type over uint8
                    IF typ.elem.kind = "uint" /\ typ.elem.bits = 8
                    THEN IF "defined" \in DOMAIN typ.elem
                         THEN [ok |-> FALSE, val |-> tgt, panic |-> TRUE]
                         ELSE [ok |-> TRUE, val |-> <<FALSE, val>>, panic |-> FALSE]
                    ELSE IF NotBlank(val)
                    THEN LET e == processElems(Split(val, ",", <<>>), typ.elem, <<>>)
                         IN [ok |-> e.ok, val |-> IF e.ok THEN <<FALSE, e.val>> ELSE tgt,
                             panic |-> e.panic]
                    ELSE [ok |-> TRUE, val |-> <<FALSE, <<>>>>, panic |-> FALSE]
               [] typ.kind = "map" ->
                    IF NotBlank(val)
                    THEN LET e == processPairs(Split(val, ",", <<>>), typ, <<>>)
                         IN [ok |-> e.ok, val |-> IF e.ok THEN <<FALSE, e.val>> ELSE tgt,
                             panic |-> e.panic]
                    ELSE [ok |-> TRUE, val |-> <<FALSE, <<>>>>, panic |-> FALSE]
               [] OTHER -> [ok |-> TRUE, val |-> tgt, panic |-> FALSE]
    IN [ok |-> r.ok, val |-> IF t.kind = "ptr" THEN <<r.val>> ELSE r.val,
        panic |-> r.panic]

----------------------------------------------------------------------------
(* Process: the body of its range loop.                                    *)

\* lines 246-249 with os.Getenv in place of the lookup in the snapshot: an
\* absent variable reads as the empty string and counts as set
lookupGetenv(info, e) ==
    IF info.Key \in DOMAIN e THEN [value |-> e[info.Key], ok |-> TRUE]
    ELSE IF info.Alt # <<>> /\ info.Alt \in DOMAIN e
    THEN [value |-> e[info.Alt], ok |-> TRUE]
    ELSE [value |-> <<>>, ok |-> TRUE]

\* lines 246-249 with the two lookups in the opposite order
lookupAltFirst(info, e) ==
    IF info.Alt # <<>> /\ info.Alt \in DOMAIN e
    THEN [value |-> e[info.Alt], ok |-> TRUE]
    ELSE IF info.Key \in DOMAIN e THEN [value |-> e[info.Key], ok |-> TRUE]
    ELSE [value |-> <<>>, ok |-> FALSE]

\* lines 246-249: value, ok := env[info.Key], else env[info.Alt]
lookup(info, e) ==
    IF info.Key \in DOMAIN e THEN [value |-> e[info.Key], ok |-> TRUE]
    ELSE IF info.Alt # <<>> /\ info.Alt \in DOMAIN e
    THEN [value |-> e[info.Alt], ok |-> TRUE]
    ELSE [value |-> <<>>, ok |-> FALSE]

\* lines 251-254 testing the value instead of ok: the default also replaces
\* a variable that is set to the empty string
withDefaultForEmpty(info, l) ==
    IF info.Tags.default # <<>> /\ l.value = <<>> THEN info.Tags.default ELSE l.value

\* lines 251-254: the default replaces the value of an absent variable
withDefault(info, l) ==
    IF info.Tags.default # <<>> /\ ~l.ok THEN info.Tags.default ELSE l.value

\* line 257 without its test of the default: a default no longer stands in
\* for an absent variable
unsetIgnoringDefault(info, isOk) == ~isOk

\* line 257: the field has neither a variable nor a default
unset(info, isOk) == ~isOk /\ info.Tags.default = <<>>

\* lines 259-263: the key the error names
requiredErr(info) ==
    [kind |-> "required", key |-> IF info.Alt # <<>> THEN info.Alt ELSE info.Key]

\* lines 270-276
ParseError(info, val) ==
    [kind |-> "ParseError", KeyName |-> info.Key, FieldName |-> info.Name,
     TypeName |-> TypeString(info.Field.typ), Value |-> val]

----------------------------------------------------------------------------
(* The calls of Process the model makes: record definitions, the values    *)
(* the caller put into the record, prefixes and environments.              *)

TInteger == TInt("int", 64)

\* Host carries the tags under test:
\*   type Tagged struct { Port int; Host string `...`; Opt *int }
TaggedT(tag) ==
    TStruct(<< Field(<<"P","o","r","t">>, TInteger, NoTag),
               Field(<<"H","o","s","t">>, TString, tag),
               Field(<<"O","p","t">>, TPtr(TInteger), NoTag) >>)

HostTags ==
    { Tag(<< <<keyEnvconfig, a>>, <<keyDefault, d>>, <<keyRequired, r>> >>) :
        a \in { <<>>, <<"s","v","c">> },
        d \in { <<>>, <<"d">> },
        r \in { <<>>, <<"t","r","u","e">> } }

\* the record as the caller passes it: zero, or filled in beforehand
TaggedVals == { << 0, <<>>, NilPtr >>, << 7, <<"h">>, <<5>> >> }

\*   type Sub    struct { A bool `envconfig:"flag"` }
\*   type Elem   struct { Value string `envconfig:"key"`; N int; Sub Sub }
\*   type Nested struct {
\*       Inner []Elem `envconfig:"alt"`
\*       Name  string `required:"true"`
\*       Sub   *Sub
\*       Note  string `ignored:"true"`
\*       seen  bool
\*   }
SubT ==
    TStruct(<< Field(<<"A">>, TBool,
                     Tag(<< <<keyEnvconfig, <<"f","l","a","g">>>> >>)) >>)

ElemT ==
    TStruct(<< Field(<<"V","a","l","u","e">>, TString,
                     Tag(<< <<keyEnvconfig, <<"k","e","y">>>> >>)),
               Field(<<"N">>, TInteger, NoTag),
               Field(<<"S","u","b">>, SubT, NoTag) >>)

NestedT ==
    TStruct(<< Field(<<"I","n","n","e","r">>, TSlice(ElemT),
                     Tag(<< <<keyEnvconfig, <<"a","l","t">>>> >>)),
               Field(<<"N","a","m","e">>, TString,
                     Tag(<< <<keyRequired, <<"t","r","u","e">>>> >>)),
               Field(<<"S","u","b">>, TPtr(SubT), NoTag),
               Field(<<"N","o","t","e">>, TString,
                     Tag(<< <<keyIgnored, <<"t","r","u","e">>>> >>)),
               [Field(<<"s","e","e","n">>, TBool, NoTag) EXCEPT !.exported = FALSE] >>)

NestedVals ==
    { << NilSlice, <<>>, NilPtr, <<>>, FALSE >>,
      << <<FALSE, << << <<"v">>, 3, <<TRUE>> >> >> >>, <<"n">>, << <<TRUE>> >>,
         <<"k">>, TRUE >> }

\*   type Emb   struct { Port int; Extra string }
\*   type Svc   struct { Host string }
\*   type Ign   struct { Secret string `required:"true"` }
\*   type Outer struct {
\*       Emb
\*       Port int
\*       Svc  Svc
\*       Ign  `ignored:"true"`
\*       Note string `ignored:"true"`
\*       Ptr  *Sub
\*       List []Elem
\*   }
EmbT ==
    TStruct(<< Field(<<"P","o","r","t">>, TInteger, NoTag),
               Field(<<"E","x","t","r","a">>, TString, NoTag) >>)

SvcT == TStruct(<< Field(<<"H","o","s","t">>, TString, NoTag) >>)

IgnT ==
    TStruct(<< Field(<<"S","e","c","r","e","t">>, TString,
                     Tag(<< <<keyRequired, <<"t","r","u","e">>>> >>)) >>)

OuterT ==
    TStruct(<< [Field(<<"E","m","b">>, EmbT, NoTag) EXCEPT !.anonymous = TRUE],
               Field(<<"P","o","r","t">>, TInteger, NoTag),
               Field(<<"S","v","c">>, SvcT, NoTag),
               [Field(<<"I","g","n">>, IgnT,
                      Tag(<< <<keyIgnored, <<"t","r","u","e">>>> >>))
                  EXCEPT !.anonymous = TRUE],
               Field(<<"N","o","t","e">>, TString,
                     Tag(<< <<keyIgnored, <<"t","r","u","e">>>> >>)),
               Field(<<"P","t","r">>, TPtr(SubT), NoTag),
               Field(<<"L","i","s","t">>, TSlice(ElemT), NoTag) >>)

OuterVals ==
    { << <<0, <<>>>>, 0, << <<>> >>, << <<>> >>, <<>>, NilPtr, NilSlice >>,
      << <<7, <<"e">>>>, 8, << <<"h">> >>, << <<"s">> >>, <<"k">>, NilPtr, NilSlice >> }

OuterKeys ==
    { <<"P","_","P","O","R","T">>,
      <<"P","_","E","X","T","R","A">>,
      <<"P","_","E","M","B","_","P","O","R","T">>,
      <<"P","_","S","V","C","_","H","O","S","T">>,
      <<"P","_","H","O","S","T">>,
      <<"P","_","S","E","C","R","E","T">>,
      <<"P","_","N","O","T","E">> }

OuterValues == { <<"1">>, <<"2">> }

\*   type Plain struct { Name string; Opt *int; Ptr *Sub; List []Elem }
PlainT ==
    TStruct(<< Field(<<"N","a","m","e">>, TString, NoTag),
               Field(<<"O","p","t">>, TPtr(TInteger), NoTag),
               Field(<<"P","t","r">>, TPtr(SubT), NoTag),
               Field(<<"L","i","s","t">>, TSlice(ElemT), NoTag) >>)

PlainKeys ==
    { <<"P","_","N","A","M","E">>, <<"P","_","O","P","T">>,
      <<"P","_","L","I","S","T","_","0","_","N">>, <<"P","_","L","I","S","T","_","X">> }

PlainValues == { <<"1">>, <<"x">> }

NodeKeys == { <<"P","_","N","A","M","E">>, <<"P","_","N","E","X","T","_","N","A","M","E">> }

NodeValues == { <<"1">> }

\*   type Wrapped struct {
\*       Emb  `envconfig:"e"`
\*       Name string
\*   }
WrappedT ==
    TStruct(<< [Field(<<"E","m","b">>, EmbT,
                      Tag(<< <<keyEnvconfig, <<"e">>>> >>)) EXCEPT !.anonymous = TRUE],
               Field(<<"N","a","m","e">>, TString, NoTag) >>)

WrappedKeys ==
    { <<"P","_","E","_","P","O","R","T">>,
      <<"P","_","P","O","R","T">>,
      <<"P","_","E","M","B","_","P","O","R","T">> }

pfxP == <<"p">>

TaggedKeys(pfx) ==
    IF pfx = <<>>
    THEN { <<"P","O","R","T">>, <<"H","O","S","T">>, <<"S","V","C">>,
           <<"_","S","V","C">>, <<"_","P","O","R","T">>, <<"O","P","T">> }
    ELSE { <<"P","_","P","O","R","T">>, <<"P","_","H","O","S","T">>,
           <<"P","_","S","V","C">>, <<"S","V","C">>, <<"H","O","S","T">>,
           <<"P","_","O","P","T">> }

NestedKeys ==
    { <<"P","_","N","A","M","E">>,
      <<"P","_","S","U","B","_","F","L","A","G">>,
      <<"F","L","A","G">>,
      <<"P","_","A","L","T","_","0","_","K","E","Y">>,
      <<"P","_","A","L","T","_","0","_","S","U","B","_","F","L","A","G">>,
      <<"P","_","A","L","T","_","1","_","N">>,
      <<"P","_","A","L","T","_","1">>,
      <<"P","_","A","L","T","_","0","0","_","N">>,
      <<"P","_","A","L","T","_","X">>,
      <<"P","_","A","L","T","_">>,
      <<"A","L","T","_","0","_","K","E","Y">>,
      <<"K","E","Y">>,
      <<"P","_","I","N","N","E","R","_","0","_","K","E","Y">> }

TaggedValues == { <<>>, <<"1">>, <<"x">> }
NestedValues == { <<"1">>, <<"x">> }

\* a call: the arguments of Process, and the keys and values its
\* environment is drawn from
Input(p, t, v, keys, values) ==
    [prefix |-> p, typ |-> t, val |-> v, keys |-> keys, values |-> values]

\*   type bracketed string  of envconfig_test.go, with the methods given
Bracketed(methods, refused) ==
    Named(TString, "envconfig.bracketed", methods, refused)

\*   type myByte uint8,  without methods
MyByteT == Named(TUint("uint8", 8), "envconfig.myByte", {}, {})

\* TestCustomDecoderWithPointer: struct { Foo string; Bar *bracketed }, with
\* Bar nil or pointing to an initial value
BracketedT ==
    TStruct(<< Field(<<"F","o","o">>, TString, NoTag),
               Field(<<"B","a","r">>, TPtr(Bracketed({"Decode"}, {<<"x">>})), NoTag) >>)

BracketedKeys == { <<"P","_","F","O","O">>, <<"P","_","B","A","R">> }

BracketedVals == { << <<>>, NilPtr >>, << <<>>, << <<"i">> >> >> }

\*   type Bytes struct { Raw []byte; B []myByte; Tags []bracketed }
BytesT ==
    TStruct(<< Field(<<"R","a","w">>, TSlice(TUint("uint8", 8)), NoTag),
               Field(<<"B">>, TSlice(MyByteT), NoTag),
               Field(<<"T","a","g","s">>, TSlice(Bracketed({"Decode"}, {<<"x">>})),
                     NoTag) >>)

BytesKeys == { <<"P","_","R","A","W">>, <<"P","_","B">>, <<"P","_","T","A","G","S">> }

\* prefixes with a "%" in them, and the variables of a Plain record under
\* them: the keys that name Name and element 0 of List and, where it can be
\* the name of a variable, the key the fields of element 0 are gathered
\* under. environment() cuts every entry at its first "=", so that no key
\* holds a "=": format("P%_LIST", 0) makes a prefix with a "=" in it, which
\* no variable lies under, and format("%%_LIST", 0) makes "%_LIST_0"
pfxPercent == <<"p","%">>

pfxPercents == <<"%","%">>

PercentKeys(p) ==
    IF p = pfxPercents
    THEN { <<"%","%","_","N","A","M","E">>,
           <<"%","%","_","L","I","S","T","_","0","_","N">>,
           <<"%","_","L","I","S","T","_","0","_","N">> }
    ELSE { <<"P","%","_","N","A","M","E">>,
           <<"P","%","_","L","I","S","T","_","0","_","N">> }

\* the families of calls: Tagged records, Nested records, specs that are not
\* a struct pointer (a struct passed by value, a pointer to a map, a nil
\* struct pointer), Outer, Plain, Node and Wrapped records, a record with a
\* pointer to a type that has a Decode, a Plain record under the prefixes
\* with a "%", and a record with slices of bytes and of defined types
Cases(family) ==
    CASE family = 1 ->
           { Input(p, TPtr(TaggedT(tag)), <<v>>, TaggedKeys(p), TaggedValues) :
               p \in { <<>>, pfxP }, tag \in HostTags, v \in TaggedVals }
      [] family = 2 ->
           { Input(pfxP, TPtr(NestedT), <<v>>, NestedKeys, NestedValues) :
               v \in NestedVals }
      [] family = 3 ->
           { Input(pfxP, TaggedT(NoTag), << 7, <<"h">>, <<5>> >>,
                  TaggedKeys(pfxP), TaggedValues) }
      [] family = 4 ->
           { Input(pfxP, TPtr(TMap(TString, TString)), << NilSlice >>,
                  TaggedKeys(pfxP), TaggedValues) }
      [] family = 5 ->
           { Input(pfxP, TPtr(TaggedT(NoTag)), NilPtr,
                  TaggedKeys(pfxP), TaggedValues) }
      [] family = 6 ->
           { Input(pfxP, TPtr(OuterT), <<v>>, OuterKeys, OuterValues) :
               v \in OuterVals }
      [] family = 7 ->
           { Input(pfxP, TPtr(PlainT), <<Zero(PlainT)>>, PlainKeys, PlainValues) }
      [] family = 8 ->
           { Input(pfxP, TPtr(NodeT), <<Zero(NodeT)>>, NodeKeys, NodeValues) }
      [] family = 9 ->
           { Input(pfxP, TPtr(WrappedT), <<Zero(WrappedT)>>, WrappedKeys, NodeValues) }
      [] family = 10 ->
           { Input(pfxP, TPtr(BracketedT), <<v>>, BracketedKeys, PlainValues) :
               v \in BracketedVals }
      [] family = 11 ->
           { Input(p, TPtr(PlainT), <<Zero(PlainT)>>, PercentKeys(p), OuterValues) :
               p \in { pfxPercent, pfxPercents } }
      [] family = 12 ->
           { Input(pfxP, TPtr(BytesT), <<Zero(BytesT)>>, BytesKeys, PlainValues) }

Families == 1..12

\* environment(): the snapshots of at most MaxEnvVars variables
Environments(keys, values) ==
    UNION { [ks -> values] : ks \in { s \in SUBSET keys : Cardinality(s) <= MaxEnvVars } }

\* the orders in which a range over a map of these keys can yield them
Orders(keys) ==
    { o \in [1..Cardinality(keys) -> keys] :
        \A i, j \in 1..Cardinality(keys) : o[i] = o[j] => i = j }

----------------------------------------------------------------------------
(* Process as a state machine.                                             *)

Init ==
    \E family \in Families : \E c \in Cases(family) :
        /\ prefix = c.prefix
        /\ env \in Environments(c.keys, c.values)
        /\ spec = [typ |-> c.typ, val |-> c.val]
        /\ spec0 = c.val
        /\ stack = <<>>
        /\ infos = <<>>
        /\ idx = 0
        /\ value = <<>>
        /\ ok = FALSE
        /\ err = NoErr
        /\ pc = "call"

\* lines 86-88 without the test of the ignored tag: only a field that cannot
\* be set is passed over
ignoredOnlyUnexported == ~stack[1].typ.fields[stack[1].i].exported

\* the frame of the innermost call of gatherInfo, and what it looks at
top    == stack[1]
ftype  == top.typ.fields[top.i]
fpath  == top.path \o <<top.i>>
deref  == derefField(ftype.typ, Get(spec.val, fpath))
info   == varInfoOf(top.prefix, ftype,
                    [path |-> fpath \o deref.rel, typ |-> deref.typ], top.inside)
onField == /\ pc = "gather"
           /\ top.kind = "fields"
           /\ top.i <= Len(top.typ.fields)
ignoredField == ~ftype.exported \/ isTrue(ftype.tag.ignored)
advance(frame) == [frame EXCEPT !.i = @ + 1]

\* lines 72-74 without lines 75-78: only a spec that is not a pointer is
\* refused
invalidUnlessPointer(t, v) == t.kind # "ptr"

\* lines 70-78: spec is not a pointer, or s.Elem() is not a struct (the Elem
\* of a nil pointer is the zero Value, of Kind Invalid)
invalidSpecification(t, v) ==
    \/ t.kind # "ptr"
    \/ v = NilPtr
    \/ t.elem.kind # "struct"

\* lines 242-243 and 69-79: the snapshot is taken, gatherInfo is entered and
\* refuses a spec that is not a struct pointer
Call ==
    /\ pc = "call"
    /\ IF invalidSpecification(spec.typ, spec.val)
       THEN err' = ErrInvalidSpecification /\ stack' = <<>> /\ pc' = "loop"
       ELSE /\ stack' = << Frame("fields", prefix, spec.typ.elem, <<1>>, 1, FALSE, FALSE) >>
            /\ pc' = "gather"
            /\ UNCHANGED err
    /\ idx' = 1
    /\ UNCHANGED <<prefix, env, spec, spec0, infos, value, ok>>

\* lines 86-88: a field that cannot be set or is tagged ignored
GatherIgnored ==
    /\ onField
    /\ ignoredField
    /\ stack' = <<advance(top)>> \o Tail(stack)
    /\ UNCHANGED <<prefix, env, spec, spec0, infos, idx, value, ok, err, pc>>

\* lines 90-144 and 202-204: a field with a decoder, or one that is neither
\* a struct nor a slice of structs, yields one varInfo
GatherLeaf ==
    /\ onField
    /\ ~ignoredField
    /\ \/ custom(deref.typ) # ""
       \/ /\ deref.typ.kind # "struct"
          /\ ~(isSliceOfStructPtrs(deref.typ) \/ isSliceOfStructs(deref.typ))
    /\ spec' = [spec EXCEPT !.val = Put(spec.val, fpath, deref.val)]
    /\ infos' = Append(infos, info)
    /\ stack' = <<advance(top)>> \o Tail(stack)
    /\ UNCHANGED <<prefix, env, spec0, idx, value, ok, err, pc>>

\* lines 147-150 without the test of ftype.Anonymous: an embedded struct
\* gets a prefix of its own like a named one
innerPrefixOwnKey(pfx, ft, i) == i.Key

\* lines 147-150: innerPrefix, the prefix of the fields of a struct
innerPrefix(pfx, ft, i) == IF ~ft.anonymous THEN i.Key ELSE pfx

\* lines 90-140 and 145-157: a struct is gathered by a nested call, under the
\* prefix of its caller when it is embedded, under its own key otherwise
GatherStruct ==
    /\ onField
    /\ ~ignoredField
    /\ custom(deref.typ) = ""
    /\ deref.typ.kind = "struct"
    /\ Len(stack) < MaxDepth
    /\ spec' = [spec EXCEPT !.val = Put(spec.val, fpath, deref.val)]
    /\ stack' = << Frame("fields", innerPrefix(top.prefix, ftype, info),
                         deref.typ, info.Field.path, 1, top.inside, top.forUsage),
                   advance(top) >> \o Tail(stack)
    /\ UNCHANGED <<prefix, env, spec0, infos, idx, value, ok, err, pc>>

\* line 152 when the stack has no room for the call: the runtime reports a
\* stack overflow, a fatal error no caller can recover from, and the
\* program ends without Process having returned
StackOverflow ==
    /\ onField
    /\ ~ignoredField
    /\ custom(deref.typ) = ""
    /\ deref.typ.kind = "struct"
    /\ Len(stack) >= MaxDepth
    /\ spec' = [spec EXCEPT !.val = Put(spec.val, fpath, deref.val)]
    /\ pc' = "fatal"
    /\ UNCHANGED <<prefix, env, spec0, stack, infos, idx, value, ok, err>>

\* lines 158-185 with line 185 skipped when sliceLen finds no index: the
\* slice is left as the caller set it
GatherSliceKeepsUnindexed ==
    /\ onField
    /\ ~ignoredField
    /\ custom(deref.typ) = ""
    /\ isSliceOfStructPtrs(deref.typ) \/ isSliceOfStructs(deref.typ)
    /\ \E i \in { info } : \E order \in Orders(DOMAIN env) :
         \E sl \in { sliceInfo(i, order, top.inside) } :
            /\ sl.err = NoErr
            /\ spec' = [spec EXCEPT !.val =
                          IF sl.l = 0
                          THEN Put(spec.val, fpath, deref.val)
                          ELSE Put(Put(spec.val, fpath, deref.val), info.Field.path,
                                   MakeSlice(deref.typ, sl.l))]
            /\ stack' = << Frame("elems", sl.prefix, deref.typ, info.Field.path,
                                 IF sl.l = 0 THEN Len(Get(spec.val, fpath)[2]) ELSE 0,
                                 TRUE, top.forUsage),
                           advance(top) >> \o Tail(stack)
    /\ UNCHANGED <<prefix, env, spec0, infos, idx, value, ok, err, pc>>

\* lines 158-185: a slice of structs is made with the length sliceLen
\* finds, or with one element when the varInfos are gathered for usage
GatherSlice ==
    /\ onField
    /\ ~ignoredField
    /\ custom(deref.typ) = ""
    /\ isSliceOfStructPtrs(deref.typ) \/ isSliceOfStructs(deref.typ)
    /\ \E i \in { info } : \E order \in Orders(DOMAIN env) :
         \E sl \in { IF top.forUsage THEN usageSliceInfo(i)
                      ELSE sliceInfo(i, order, top.inside) } :
            /\ sl.err = NoErr
            /\ spec' = [spec EXCEPT !.val =
                          Put(Put(spec.val, fpath, deref.val), info.Field.path,
                              MakeSlice(deref.typ, sl.l))]
            /\ stack' = << Frame("elems", sl.prefix, deref.typ, info.Field.path,
                                 0, TRUE, top.forUsage),
                           advance(top) >> \o Tail(stack)
    /\ UNCHANGED <<prefix, env, spec0, infos, idx, value, ok, err, pc>>

\* lines 172-180 returning the varInfos gathered so far with the error
GatherSliceErrKeepsInfos ==
    /\ onField
    /\ ~ignoredField
    /\ custom(deref.typ) = ""
    /\ isSliceOfStructPtrs(deref.typ) \/ isSliceOfStructs(deref.typ)
    /\ \E i \in { info } : \E order \in Orders(DOMAIN env) :
         \E sl \in { sliceInfo(i, order, top.inside) } :
            /\ sl.err # NoErr
            /\ err' = sl.err
    /\ spec' = [spec EXCEPT !.val = Put(spec.val, fpath, deref.val)]
    /\ stack' = <<>>
    /\ pc' = "loop"
    /\ UNCHANGED <<prefix, env, spec0, infos, idx, value, ok>>

\* lines 172-180, and 154-156, 197-199 in the callers: an error of sliceLen
\* ends every running call, gatherInfo returns nil and the error
GatherSliceErr ==
    /\ onField
    /\ ~ignoredField
    /\ ~top.forUsage
    /\ custom(deref.typ) = ""
    /\ isSliceOfStructPtrs(deref.typ) \/ isSliceOfStructs(deref.typ)
    /\ \E i \in { info } : \E order \in Orders(DOMAIN env) :
         \E sl \in { sliceInfo(i, order, top.inside) } :
            /\ sl.err # NoErr
            /\ err' = sl.err
    /\ spec' = [spec EXCEPT !.val = Put(spec.val, fpath, deref.val)]
    /\ infos' = <<>>
    /\ stack' = <<>>
    /\ pc' = "loop"
    /\ UNCHANGED <<prefix, env, spec0, idx, value, ok>>

\* lines 186-200: the next element of a slice of structs is gathered by a
\* nested call under the prefix of its index
GatherElem ==
    /\ pc = "gather"
    /\ top.kind = "elems"
    /\ top.i < Len(Get(spec.val, top.path)[2])
    /\ LET arePointers == isSliceOfStructPtrs(top.typ)
           structT == IF arePointers THEN top.typ.elem.elem ELSE top.typ.elem
           epath   == top.path \o <<2, top.i + 1>>
       IN /\ spec' = IF arePointers
                     THEN [spec EXCEPT !.val = Put(spec.val, epath, <<Zero(structT)>>)]
                     ELSE spec
          /\ stack' = << Frame("fields",
                               IF top.forUsage THEN usageFormat(top.prefix, top.i)
                               ELSE format(top.prefix, top.i),
                               structT,
                               IF arePointers THEN epath \o <<1>> ELSE epath,
                               1, TRUE, top.forUsage),
                         advance(top) >> \o Tail(stack)
    /\ UNCHANGED <<prefix, env, spec0, infos, idx, value, ok, err, pc>>

\* line 206, and the end of the loop of line 186: a call of gatherInfo
\* returns to its caller, the outermost one to Process
GatherReturn ==
    /\ pc = "gather"
    /\ \/ top.kind = "fields" /\ top.i > Len(top.typ.fields)
       \/ top.kind = "elems" /\ top.i >= Len(Get(spec.val, top.path)[2])
    /\ stack' = Tail(stack)
    /\ pc' = IF Tail(stack) = <<>> THEN "loop" ELSE "gather"
    /\ UNCHANGED <<prefix, env, spec, spec0, infos, idx, value, ok, err>>

\* lines 245-254: the next varInfo is looked up
Resolve ==
    /\ pc = "loop"
    /\ idx <= Len(infos)
    /\ LET l == lookup(infos[idx], env)
       IN /\ value' = withDefault(infos[idx], l)
          /\ ok' = l.ok
    /\ pc' = "resolved"
    /\ UNCHANGED <<prefix, env, spec, spec0, stack, infos, idx, err>>

\* lines 257-265: an optional field without a value is passed over
Skip ==
    /\ pc = "resolved"
    /\ unset(infos[idx], ok)
    /\ ~isTrue(infos[idx].Tags.required)
    /\ idx' = idx + 1
    /\ value' = <<>>
    /\ ok' = FALSE
    /\ pc' = "loop"
    /\ UNCHANGED <<prefix, env, spec, spec0, stack, infos, err>>

\* lines 257-263 with the error kept for line 280 instead of returned: the
\* loop goes on to the next varInfo
MissingRequiredContinues ==
    /\ pc = "resolved"
    /\ unset(infos[idx], ok)
    /\ isTrue(infos[idx].Tags.required)
    /\ err' = requiredErr(infos[idx])
    /\ idx' = idx + 1
    /\ value' = <<>>
    /\ ok' = FALSE
    /\ pc' = "loop"
    /\ UNCHANGED <<prefix, env, spec, spec0, stack, infos>>

\* lines 257-263: a required field without a value ends Process
MissingRequired ==
    /\ pc = "resolved"
    /\ unset(infos[idx], ok)
    /\ isTrue(infos[idx].Tags.required)
    /\ err' = requiredErr(infos[idx])
    /\ pc' = "done"
    /\ UNCHANGED <<prefix, env, spec, spec0, stack, infos, idx, value, ok>>

\* lines 268-277: the value is converted and assigned, or Process ends with
\* a ParseError (spec keeps what processField did before it failed).  A
\* panic of processField is not recovered: Process does not return
Assign ==
    /\ pc = "resolved"
    /\ ~unset(infos[idx], ok)
    /\ LET f == infos[idx].Field
           r == processField(value, f.typ, Get(spec.val, f.path))
       IN /\ spec' = [spec EXCEPT !.val = Put(spec.val, f.path, r.val)]
          /\ IF r.panic
             THEN /\ pc' = "panic"
                  /\ UNCHANGED <<idx, value, ok, err>>
             ELSE IF r.ok
             THEN /\ idx' = idx + 1
                  /\ value' = <<>>
                  /\ ok' = FALSE
                  /\ pc' = "loop"
                  /\ UNCHANGED err
             ELSE /\ err' = ParseError(infos[idx], value)
                  /\ pc' = "done"
                  /\ UNCHANGED <<idx, value, ok>>
    /\ UNCHANGED <<prefix, env, spec0, stack, infos>>

\* line 280: the loop is over, the error of gatherInfo is returned
Return ==
    /\ pc = "loop"
    /\ idx > Len(infos)
    /\ pc' = "done"
    /\ UNCHANGED <<prefix, env, spec, spec0, stack, infos, idx, value, ok, err>>

Next ==
    \/ Call
    \/ GatherIgnored
    \/ GatherLeaf
    \/ GatherStruct
    \/ StackOverflow
    \/ GatherSlice
    \/ GatherSliceErr
    \/ GatherElem
    \/ GatherReturn
    \/ Resolve
    \/ Skip
    \/ MissingRequired
    \/ Assign
    \/ Return

Spec == Init /\ [][Next]_vars

\* The calls of Process on a zero Node record and on a zero Nested record,
\* with few variables.  Process is a sequence of steps of one goroutine,
\* which takes its next step whenever it has one.
FairKeys == { <<"P","_","N","A","M","E">>, <<"P","_","A","L","T","_","0","_","K","E","Y">>, <<"P","_","A","L","T","_","X">> }

FairValues == { <<"1">> }

FairRecords == { NodeT, NestedT }

InitFair ==
    \E t \in FairRecords :
        /\ prefix = pfxP
        /\ env \in Environments(FairKeys, FairValues)
        /\ spec = [typ |-> TPtr(t), val |-> <<Zero(t)>>]
        /\ spec0 = <<Zero(t)>>
        /\ stack = <<>>
        /\ infos = <<>>
        /\ idx = 0
        /\ value = <<>>
        /\ ok = FALSE
        /\ err = NoErr
        /\ pc = "call"

FairSpec == InitFair /\ [][Next]_vars /\ WF_vars(Next)

----------------------------------------------------------------------------
(* processField on its own: one call processField(value, field), with the  *)
(* value in the variable value, the type and storage of field in spec, the *)
(* storage as it was before the call in spec0 and the error in err.        *)

TInt8   == TInt("int8", 8)
TInt16  == TInt("int16", 16)
TUint8  == TUint("uint8", 8)
TUint16 == TUint("uint16", 16)

IntegerStrings ==
    { <<"0">>, <<"5">>, <<"1","2","7">>, <<"1","2","8">>, <<"2","5","5">>,
      <<"2","5","6">>, <<"-","1">>, <<"-","1","2","8">>, <<"-","1","2","9">>,
      <<"+","5">>, <<"-","0">>, <<"0","x","7","f">>, <<"0","x","8","0">>,
      <<"0","x","f","f">>, <<"0","x","1","0","0">>, <<"0","1","0">>,
      <<"0","2","0","0">>, <<"0","4","0","0">>, <<"1","_","0">>,
      <<"_","1">>, <<"1","_">>, <<"1","_","_","0">>, <<"0","x","_","1","f">>,
      <<"0","_","7">>, <<"0","b","1","0","1">>, <<"0","o","1","7">>,
      <<"0","X","7","F">>,
      <<"3","2","7","6","7">>, <<"3","2","7","6","8">>,
      <<"-","3","2","7","6","8">>, <<"-","3","2","7","6","9">>,
      <<"6","5","5","3","5">>, <<"6","5","5","3","6">>, <<>>, <<"x">>,
      <<"1","2","a">>, <<" ","1">>, <<"-">> }

SliceStrings ==
    { <<>>, <<"a",",","b",",","c">>, <<"a">>, <<"a",",",",","b">>, <<",">>,
      <<" ">>, <<"a",","," ","b">>, <<"1",",","2",",","3">>, <<"1",",","x">>,
      <<"1","2","8",",","1">>, <<"1">>, <<"7",",","7">>, <<"\f">>,
      <<"U+00A0","\t">> }

MapStrings ==
    { <<>>, <<"k",":","1",",","j",":","2">>, <<"k",":","1">>, <<"k">>,
      <<"k",":","1",":","2">>, <<" ">>, <<"k",":","x">>,
      <<"k",":","1",",","k",":","2">>, <<"k",":","1",",","j">>, <<":">>,
      <<"k",":">>, <<"k",":","a",",","j",":","b">>, <<"k",":","1",",">>,
      <<"\f">>, <<"U+00A0","\t">> }

CustomStrings ==
    { <<"5">>, <<>>, <<"(","x",")">>, <<"t","r","u","e">> }

\* what the methods of a type refuse: nothing, or the empty string
Refusals == { {}, {<<>>} }

\* the error of a conversion: of strconv, or "invalid map item"
ConversionError == [kind |-> "conversion"]

FieldCall(t, cur, val) == [typ |-> t, cur |-> cur, value |-> val]

\* the calls, by the type of the field
FieldCases(group) ==
    CASE group = 1 ->
           { FieldCall(t, c, v) : t \in {TInt8, TInt16, TUint8, TUint16},
                                  c \in {0, 9}, v \in IntegerStrings }
      [] group = 2 ->
           { FieldCall(TPtr(t), c, v) : t \in {TInt8, TUint8},
                                  c \in {NilPtr, <<9>>}, v \in IntegerStrings }
      [] group = 3 ->
           { FieldCall(TSlice(TString), c, v) :
                 c \in {NilSlice, <<FALSE, << <<"z">> >> >>}, v \in SliceStrings }
      [] group = 4 ->
           { FieldCall(TSlice(t), c, v) : t \in {TInt8, TUint16},
                 c \in {NilSlice, <<FALSE, <<9>> >>}, v \in SliceStrings }
      [] group = 5 ->
           { FieldCall(TSlice(TUint8), c, v) :
                 c \in {NilSlice, <<FALSE, <<"z">> >>}, v \in SliceStrings }
      [] group = 6 ->
           { FieldCall(TMap(TString, t), c, v) : t \in {TInt8, TString},
                 c \in {NilSlice, <<FALSE, [x \in {} |-> 0]>>}, v \in MapStrings }
      [] group = 7 ->
           { FieldCall(Bracketed(m, r), c, v) :
                 m \in SUBSET {"Decode", "Set", "UnmarshalText", "UnmarshalBinary"},
                 r \in Refusals, c \in {<<>>, <<"z">>}, v \in CustomStrings }
      [] group = 8 ->
           { FieldCall(Named(TInt8, "envconfig.small", m, r), 9, v) :
                 m \in SUBSET {"Decode", "Set", "UnmarshalText", "UnmarshalBinary"},
                 r \in Refusals, v \in CustomStrings }
      [] group = 9 ->
           { FieldCall(TBool, c, v) : c \in {FALSE, TRUE}, v \in CustomStrings }
      [] group = 10 ->
           \* Bar *bracketed, nil or pointing to "initial_value"
           { FieldCall(TPtr(Bracketed(m, r)), c, v) :
                 m \in SUBSET {"Decode", "Set"},
                 r \in Refusals, c \in {NilPtr, << <<"z">> >>}, v \in CustomStrings }
      [] group = 11 ->
           \* []*bracketed: the elements are made nil
           { FieldCall(TSlice(TPtr(Bracketed(m, {}))), NilSlice, v) :
                 m \in {{}, {"Decode"}}, v \in SliceStrings }
      [] group = 12 ->
           \* []myByte and *[]myByte
           { FieldCall(TSlice(MyByteT), c, v) :
                 c \in {NilSlice, <<FALSE, <<9>> >>}, v \in SliceStrings }
             \cup { FieldCall(TPtr(TSlice(MyByteT)), NilPtr, v) : v \in SliceStrings }
      [] group = 13 ->
           \* []bracketed whose Decode refuses "a"
           { FieldCall(TSlice(Bracketed({"Decode"}, {<<"a">>})), NilSlice, v) :
                 v \in SliceStrings }

FieldGroups == 1..13

InitField ==
    \E group \in FieldGroups : \E c \in FieldCases(group) :
        /\ value = c.value
        /\ spec = [typ |-> c.typ, val |-> c.cur]
        /\ spec0 = c.cur
        /\ err = NoErr
        /\ pc = "field"
        /\ prefix = <<>>
        /\ env = <<>>
        /\ stack = <<>>
        /\ infos = <<>>
        /\ idx = 0
        /\ ok = FALSE

\* lines 290-397: the call and its return, or its panic
ProcessFieldCall ==
    /\ pc = "field"
    /\ LET r == processField(value, spec.typ, spec.val)
       IN /\ spec' = [spec EXCEPT !.val = r.val]
          /\ err' = IF r.ok \/ r.panic THEN NoErr ELSE ConversionError
          /\ pc' = IF r.panic THEN "panic" ELSE "returned"
    /\ UNCHANGED <<prefix, env, spec0, stack, infos, idx, value, ok>>

NextField == ProcessFieldCall

SpecField == InitField /\ [][NextField]_vars

----------------------------------------------------------------------------
(* The varInfo of one field on its own: a call of gatherInfo on a struct   *)
(* of one field, up to the key of the field (lines 102-140).               *)

FieldNames ==
    { <<"M","u","l","t","i","W","o","r","d","V","a","r">>,
      <<"H","T","T","P","S","e","r","v","e","r">>,
      <<"V","a","r","2","G","o">>,
      <<"U","R","L">>,
      <<"P","o","r","t","8","0","8","0">>,
      <<"A","B","c">>,
      <<"X","M","L","H","t","t","p","R","e","q","u","e","s","t">>,
      <<"H","o","s","t">>,
      <<"M","y","_","V","a","r">>,
      <<"X">> }

\* split_words:"true", split_words:"1", split_words:"false" and no such tag
SplitTags == { <<"t","r","u","e">>, <<"1">>, <<"f","a","l","s","e">>, <<>> }

Aliases == { <<>>, <<"a","l">> }

KeyPrefixes == { <<>>, pfxP, <<"m","y","_","a","p","p">> }

InitKey ==
    \E name \in FieldNames : \E sw \in SplitTags : \E a \in Aliases :
    \E p \in KeyPrefixes : \E isInsideStructSlice \in BOOLEAN :
        LET t == TStruct(<< Field(name, TString,
                                  Tag(<< <<keySplitWords, sw>>, <<keyEnvconfig, a>> >>)) >>)
        IN /\ prefix = p
           /\ spec = [typ |-> TPtr(t), val |-> <<Zero(t)>>]
           /\ spec0 = <<Zero(t)>>
           /\ stack = << Frame("fields", p, t, <<1>>, 1, isInsideStructSlice, FALSE) >>
           /\ infos = <<>>
           /\ pc = "key"
           /\ env = <<>>
           /\ idx = 0
           /\ value = <<>>
           /\ ok = FALSE
           /\ err = NoErr

\* lines 102-140: the varInfo of the field and its key
VarInfoKey ==
    /\ pc = "key"
    /\ infos' = Append(infos, info)
    /\ pc' = "keyed"
    /\ UNCHANGED <<prefix, env, spec, spec0, stack, idx, value, ok, err>>

NextKey == VarInfoKey

SpecKey == InitKey /\ [][NextKey]_vars

----------------------------------------------------------------------------
(* newReaderLookupEnvFunc on its own: the bytes read from r are the value  *)
(* of spec, the map environ it collects is env.                            *)

decoderStateKey   == 0
decoderStateValue == 1

\* the loop over data from position i on and the last item: state, buf and
\* key are the variables of the loop, environ the map collected so far
RECURSIVE collect(_, _, _, _, _, _)
collect(data, i, state, buf, key, environ) ==
    IF i > Len(data)
    THEN (IF Len(buf) > 0 /\ state = decoderStateValue
          THEN [k \in DOMAIN environ \cup {key} |-> IF k = key THEN buf ELSE environ[k]]
          ELSE environ)
    ELSE CASE data[i] = "_" ->
                collect(data, i + 1, state,
                        IF state = decoderStateValue THEN Append(buf, data[i]) ELSE buf,
                        key, environ)
           [] data[i] = "=" ->
                collect(data, i + 1, decoderStateValue, <<>>, buf, environ)
           [] data[i] = "\n" ->
                collect(data, i + 1, decoderStateKey, <<>>, key,
                        [k \in DOMAIN environ \cup {key} |->
                            IF k = key THEN buf ELSE environ[k]])
           [] OTHER ->
                collect(data, i + 1, state, Append(buf, data[i]), key, environ)

\* the function newReaderLookupEnvFunc returns, on the map it collected
readerLookup(key) ==
    [value |-> IF key \in DOMAIN env THEN env[key] ELSE <<>>,
     ok    |-> key \in DOMAIN env]

ReaderKeys == { <<"U","S","E","R">>, <<"A","_","B">>, <<"A","B">> }

ReaderValues == { <<"x","-","g">>, <<"x","_","y">>, <<"1">>, <<>> }

ReaderLines == { k \o <<"=">> \o v : k \in ReaderKeys, v \in ReaderValues }

\* one or two lines, the last one with or without its newline
ReaderBuffers ==
    LET ends == { <<>>, <<"\n">> }
    IN { l \o e : l \in ReaderLines, e \in ends }
       \cup { l1 \o <<"\n">> \o l2 \o e : l1 \in ReaderLines, l2 \in ReaderLines, e \in ends }

\* the error of a reader whose Read fails
ReadError == [kind |-> "read"]

\* an io.Reader: the bytes it holds and whether reading it fails
Reader(b, fails) == [typ |-> "io.Reader", val |-> b, fails |-> fails]

InitReader ==
    /\ spec \in { Reader(b, fails) : b \in ReaderBuffers, fails \in BOOLEAN }
    /\ env = <<>>
    /\ pc = "read"
    /\ prefix = <<>>
    /\ spec0 = <<>>
    /\ stack = <<>>
    /\ infos = <<>>
    /\ idx = 0
    /\ value = <<>>
    /\ ok = FALSE
    /\ err = NoErr

\* lines 29-72: the bytes are read and the map is collected; when ReadAll
\* fails its error is returned and no lookup function is built (30-33, and
\* 19-22 of NewReader)
ReaderCollect ==
    /\ pc = "read"
    /\ IF spec.fails
       THEN err' = ReadError /\ pc' = "failed" /\ UNCHANGED env
       ELSE /\ env' = collect(spec.val, 1, decoderStateKey, <<>>, <<>>, <<>>)
            /\ pc' = "built"
            /\ UNCHANGED err
    /\ UNCHANGED <<prefix, spec, spec0, stack, infos, idx, value, ok>>

NextReader == ReaderCollect

SpecReader == InitReader /\ [][NextReader]_vars

\* The ProcessFunc of NewReader (lines 23-25) hands the lookup function to
\* process, which this revision of the package does not define.  It is taken
\* to be Process with the collected map for the snapshot of the environment:
\* "alternative sources (e.g., a buffer of KEY=VALUE lines) can supply the
\* same contract: lookup(key) -> (value, found)".
\*   type FromReader struct { User string `required:"true"`; Ab int }
FromReaderT ==
    TStruct(<< Field(<<"U","s","e","r">>, TString,
                     Tag(<< <<keyRequired, <<"t","r","u","e">>>> >>)),
               Field(<<"A","b">>, TInteger, NoTag) >>)

\*   type Shaped struct {
\*       User string
\*       Ab   []Elem
\*       Sub  Sub
\*       Note string `ignored:"true"`
\*   }
ShapedT ==
    TStruct(<< Field(<<"U","s","e","r">>, TString, NoTag),
               Field(<<"A","b">>, TSlice(ElemT), NoTag),
               Field(<<"S","u","b">>, SubT, NoTag),
               Field(<<"N","o","t","e">>, TString,
                     Tag(<< <<keyIgnored, <<"t","r","u","e">>>> >>)) >>)

ReaderRecords == { FromReaderT, ShapedT, NodeT }

\* the ProcessFunc is called on a record: Process starts on the map
ProcessFuncCall ==
    /\ pc = "built"
    /\ prefix' = <<>>
    /\ \E t \in ReaderRecords :
          /\ spec' = [typ |-> TPtr(t), val |-> <<Zero(t)>>]
          /\ spec0' = <<Zero(t)>>
    /\ pc' = "call"
    /\ UNCHANGED <<env, stack, infos, idx, value, ok, err>>

\* the steps of Process on the collected map.  A slice of structs gets no
\* element and sliceLen no malformed key: no key of the map holds a "_"
\* (collect drops it), and sliceLen looks at the keys that begin with the
\* key of the slice and a "_"
NextNewReader ==
    \/ ReaderCollect
    \/ ProcessFuncCall
    \/ Call
    \/ GatherIgnored
    \/ GatherLeaf
    \/ GatherStruct
    \/ StackOverflow
    \/ GatherSlice
    \/ GatherReturn
    \/ Resolve
    \/ Skip
    \/ MissingRequired
    \/ Assign
    \/ Return

SpecNewReader == InitReader /\ [][NextNewReader]_vars

----------------------------------------------------------------------------
(* Properties of Process.  They speak of the varInfos the loop of Process  *)
(* has dealt with: those before idx and, once Process ended with the error *)
(* of a field, the one at idx.                                             *)

\* one of the keys of the field is in the snapshot
present(i) == i.Key \in DOMAIN env \/ (i.Alt # <<>> /\ i.Alt \in DOMAIN env)

\* the field is required and has neither a variable nor a default
requirementUnmet(i) ==
    /\ i.Tags.required = <<"t","r","u","e">>
    /\ ~present(i)
    /\ i.Tags.default = <<>>

\* Process ended with an error of the field at idx
failedWith(kind) == pc = "done" /\ err.kind = kind

\* C1: Process returns the error of a missing required key for a field if
\* and only if the field is tagged required, neither its canonical key nor
\* its alias key is in the snapshot and its default is empty; a key that is
\* present with the empty string satisfies the requirement.
C1_RequiredErrorIffUnset ==
    /\ \A j \in 1..(idx - 1) : ~requirementUnmet(infos[j])
    /\ failedWith("ParseError") => ~requirementUnmet(infos[idx])
    /\ failedWith("required") =>
          /\ requirementUnmet(infos[idx])
          /\ err.key \in {infos[idx].Key, infos[idx].Alt}

\* C1: Process ended with the error for a required field that declares an
\* alias, while the snapshot holds other variables
C1_Witness ==
    /\ failedWith("required")
    /\ infos[idx].Alt # <<>>
    /\ DOMAIN env # {}

\* what the storage of the field holds now
stored(i) == Get(spec.val, i.Field.path)

isString(i) == i.Field.typ.kind = "string"

\* the varInfos the loop of Process has assigned or passed over
passed == 1..(idx - 1)

\* C2: for a field that declares an alias, Process assigns the value of the
\* canonical key when the snapshot holds both keys; the value of the alias
\* key is used only when the canonical key is absent.
C2_CanonicalBeforeAlias ==
    /\ pc = "resolved" /\ infos[idx].Alt # <<>> =>
          /\ infos[idx].Key \in DOMAIN env => value = env[infos[idx].Key]
          /\ ok /\ infos[idx].Key \notin DOMAIN env => value = env[infos[idx].Alt]
    /\ \A j \in passed :
          infos[j].Alt # <<>> /\ isString(infos[j]) =>
             /\ infos[j].Key \in DOMAIN env => stored(infos[j]) = env[infos[j].Key]
             /\ infos[j].Key \notin DOMAIN env /\ infos[j].Alt \in DOMAIN env =>
                   stored(infos[j]) = env[infos[j].Alt]

\* C2: a string field with an alias has been assigned while the snapshot
\* held different values under its canonical key and under its alias
C2_Witness ==
    \E j \in passed :
        /\ isString(infos[j])
        /\ infos[j].Alt # <<>>
        /\ infos[j].Key \in DOMAIN env
        /\ infos[j].Alt \in DOMAIN env
        /\ env[infos[j].Key] # env[infos[j].Alt]

\* C3: the default is the raw value of a field if and only if neither key
\* is in the snapshot and the default is not empty; the value of a key that
\* is present is used instead, even when it is the empty string.
C3_DefaultIffAbsent ==
    /\ pc = "resolved" /\ infos[idx].Tags.default # <<>> =>
          (value = infos[idx].Tags.default <=> ~present(infos[idx]))
    /\ pc = "resolved" /\ present(infos[idx]) =>
          value = IF infos[idx].Key \in DOMAIN env THEN env[infos[idx].Key]
                  ELSE env[infos[idx].Alt]
    /\ \A j \in passed :
          isString(infos[j]) /\ infos[j].Tags.default # <<>> =>
             (stored(infos[j]) = infos[j].Tags.default <=> ~present(infos[j]))

\* C3: a string field with a default has been assigned the empty string its
\* key holds in the snapshot
C3_Witness ==
    \E j \in passed :
        /\ isString(infos[j])
        /\ infos[j].Tags.default # <<>>
        /\ infos[j].Key \in DOMAIN env
        /\ env[infos[j].Key] = <<>>
        /\ stored(infos[j]) = <<>>

\* the varInfo belongs to a field of the record Process was called with,
\* whose keys are derived from the prefix of the call
isRootField(i) ==
    /\ Len(i.Field.path) <= 3
    /\ spec.typ.elem.fields[i.Field.path[2]].name = i.Name

\* upper(prefix + "_" + name)
prefixed(name) == ToUpper(prefix \o <<"_">> \o name)

\* the value and ok Process resolves when it consults key k1 and then, if
\* there is one, key k2
consults(k1, hasK2, k2) ==
    /\ ok <=> (k1 \in DOMAIN env \/ (hasK2 /\ k2 \in DOMAIN env))
    /\ k1 \in DOMAIN env => value = env[k1]
    /\ k1 \notin DOMAIN env /\ hasK2 /\ k2 \in DOMAIN env => value = env[k2]

\* C4 as stated: a field with an alias outside a slice of structs consults
\* exactly upper(prefix + "_" + alias) and then upper(alias), whatever the
\* case of the declared alias and whatever upper(prefix + "_" + fieldName)
\* holds; a field without an alias never uses the unprefixed variable named
\* after the field, only upper(prefix + "_" + fieldName).
C4_AsStated ==
    pc = "resolved" /\ isRootField(infos[idx]) =>
        LET i == infos[idx]
            alias == i.Tags.envconfig
        IN IF alias # <<>>
           THEN consults(prefixed(alias), TRUE, ToUpper(alias))
           ELSE consults(prefixed(i.Name), FALSE, <<>>)

\* the canonical key: the prefix and "_" are left out when the prefix is
\* empty
canonical(name) == IF prefix = <<>> THEN ToUpper(name) ELSE prefixed(name)

\* C4, amended: a field with an alias outside a slice of structs consults
\* exactly its canonical key, upper(prefix + "_" + alias) or upper(alias)
\* when the prefix is empty, and then upper(alias); a field without an
\* alias consults exactly its canonical key, which is the unprefixed
\* variable named after the field when the prefix is empty.
C4_KeysConsulted ==
    pc = "resolved" /\ isRootField(infos[idx]) =>
        LET i == infos[idx]
            alias == i.Tags.envconfig
        IN IF alias # <<>>
           THEN consults(canonical(alias), TRUE, ToUpper(alias))
           ELSE consults(canonical(i.Name), FALSE, <<>>)

\* C4: under a prefix, a field with a lower-case alias is resolved from the
\* unprefixed upper-case alias while the snapshot also holds the variable
\* named upper(prefix + "_" + fieldName)
C4_Witness ==
    /\ pc = "resolved"
    /\ isRootField(infos[idx])
    /\ prefix # <<>>
    /\ infos[idx].Tags.envconfig # <<>>
    /\ infos[idx].Tags.envconfig # ToUpper(infos[idx].Tags.envconfig)
    /\ prefixed(infos[idx].Name) \in DOMAIN env
    /\ ToUpper(infos[idx].Tags.envconfig) \in DOMAIN env
    /\ ok
    /\ value = env[ToUpper(infos[idx].Tags.envconfig)]
    /\ value # env[prefixed(infos[idx].Name)]

\* value v has storage at path
RECURSIVE HasPath(_, _)
HasPath(v, path) ==
    \/ path = <<>>
    \/ /\ Head(path) \in DOMAIN v
       /\ HasPath(v[Head(path)], Tail(path))

\* the storage at path, in a value of type t, lies in an element of a slice
RECURSIVE inSlice(_, _)
inSlice(t, path) ==
    IF path = <<>> THEN FALSE
    ELSE CASE t.kind = "ptr"    -> inSlice(t.elem, Tail(path))
           [] t.kind = "struct" -> inSlice(t.fields[Head(path)].typ, Tail(path))
           [] t.kind = "slice"  -> TRUE
           [] OTHER             -> FALSE

insideElement(i) == inSlice(spec.typ, i.Field.path)

\* resolution says "skip": no key, no default, not required
skipped(i) ==
    /\ ~present(i)
    /\ i.Tags.default = <<>>
    /\ i.Tags.required # <<"t","r","u","e">>

\* the storage of the field existed before the call and holds what it held
keptValue(i) ==
    /\ HasPath(spec0, i.Field.path)
    /\ stored(i) = Get(spec0, i.Field.path)

\* Process was called with a pointer to a struct
validSpec ==
    /\ spec.typ.kind = "ptr"
    /\ spec0 # NilPtr
    /\ spec.typ.elem.kind = "struct"

\* gatherInfo has returned
gathered == pc \in {"loop", "resolved", "done"}

\* the fields of the record that are slices of structs
rootSlices ==
    { f \in 1..Len(spec.typ.elem.fields) :
        LET ft == spec.typ.elem.fields[f]
        IN isSliceOfStructs(ft.typ) /\ ft.exported /\ ft.tag.ignored = <<>> }

aliasOrName(ft) == IF ft.tag.envconfig # <<>> THEN ft.tag.envconfig ELSE ft.name

\* the keys of the snapshot under prefix p
under(p) == { k \in DOMAIN env : HasPrefix(k, p \o <<"_">>) }

\* the length of the run of digits of k that starts at position from
digitRun(k, from) ==
    CHOOSE m \in 0..Len(k) :
        /\ from + m - 1 <= Len(k)
        /\ \A x \in from..(from + m - 1) : IsDigit(k[x])
        /\ from + m > Len(k) \/ ~IsDigit(k[from + m])

\* the number a string of digits denotes
RECURSIVE decimal(_)
decimal(d) ==
    IF d = <<>> THEN 0
    ELSE 10 * decimal(SubSeq(d, 1, Len(d) - 1)) + DigitVal(d[Len(d)])

\* what follows p and "_" in k is a run of digits, then "_" or the end of k
wellFormed(k, p) ==
    LET from == Len(p) + 2
        m    == digitRun(k, from)
    IN m >= 1 /\ (from + m > Len(k) \/ k[from + m] = "_")

indexOf(k, p) ==
    decimal(SubSeq(k, Len(p) + 2, Len(p) + 1 + digitRun(k, Len(p) + 2)))

\* the distinct indices found under p
indices(p) == { indexOf(k, p) : k \in under(p) }

\* the scan under p succeeds: every key is well formed and the indices are
\* 0 .. n-1
scanSucceeds(p) ==
    /\ \A k \in under(p) : wellFormed(k, p)
    /\ indices(p) = 0..(Cardinality(indices(p)) - 1)

\* the prefix of slice field f: its canonical key, or its alias when the
\* snapshot holds no key under the canonical key
slicePrefix(f) ==
    LET ft == spec.typ.elem.fields[f]
        c  == canonical(aliasOrName(ft))
    IN IF under(c) = {} /\ ft.tag.envconfig # <<>>
       THEN ToUpper(ft.tag.envconfig) ELSE c

\* gatherInfo returned the error of an index scan, and Process returned it
scanFailed == pc = "done" /\ validSpec /\ err.kind = "sliceLen"

\* the fields of the record that are no record, pointer to a record or
\* slice of records
leafFields ==
    { f \in 1..Len(spec.typ.elem.fields) :
        LET t == spec.typ.elem.fields[f].typ
        IN /\ t.kind # "struct"
           /\ ~(t.kind = "ptr" /\ t.elem.kind = "struct")
           /\ ~isSliceOfStructs(t) }

\* what field f of the record holds, and what it held before the call
fieldNow(f)    == Get(spec.val, <<1, f>>)
fieldBefore(f) == Get(spec0, <<1, f>>)

\* C5 as stated: every leaf field without key, default and requirement keeps
\* the storage it had before the call, and Process reports no error for it.
C5_AsStated ==
    /\ \A j \in 1..Len(infos) :
          skipped(infos[j]) /\ HasPath(spec0, infos[j].Field.path) =>
              keptValue(infos[j])
    /\ failedWith("required") \/ failedWith("ParseError") => ~skipped(infos[idx])

\* C5, amended: a leaf field without key, default and requirement that is
\* not in an element of a slice of structs keeps the storage it had before
\* the call (zero storage if gatherInfo allocated the struct it is in), one
\* in an element of a slice of structs holds the zero value of its type, and
\* Process reports no error for either. When an index scan fails no field is
\* gathered: the leaves of the record and the elements of the slice whose
\* scan failed hold what they held before the call.
C5_SkippedFieldKeepsValue ==
    /\ \A j \in 1..Len(infos) :
          skipped(infos[j]) =>
              IF ~insideElement(infos[j]) /\ HasPath(spec0, infos[j].Field.path)
              THEN keptValue(infos[j])
              ELSE stored(infos[j]) = Zero(infos[j].Field.typ)
    /\ failedWith("required") \/ failedWith("ParseError") => ~skipped(infos[idx])
    /\ scanFailed =>
          /\ \A f \in leafFields : fieldNow(f) = fieldBefore(f)
          /\ \A f \in rootSlices :
                ~scanSucceeds(slicePrefix(f)) => fieldNow(f) = fieldBefore(f)

\* C5: Process returned nil and a field without key, default and requirement
\* still holds the non-zero value the caller had put there
C5_Witness ==
    /\ pc = "done"
    /\ err = NoErr
    /\ \E j \in passed :
          /\ skipped(infos[j])
          /\ keptValue(infos[j])
          /\ stored(infos[j]) # Zero(infos[j].Field.typ)

\* the varInfo is that of field number n of element e (0-based) of slice f
isElementField(i, f, e, n) == i.Field.path = <<1, f, 2, e + 1, n>>

\* C6 as stated: the scan for a slice of structs succeeds with length n if and only if
\* the distinct indices under the prefix of the field are 0 .. n-1 (and
\* every key under it is a run of digits followed by "_" or the end);
\* Process then makes exactly n elements and resolves the fields of element
\* i under prefix_i; a gap or a malformed key makes Process fail.
C6_AsStated ==
    validSpec /\ gathered =>
        \A f \in rootSlices :
            LET p  == slicePrefix(f)
                n  == Cardinality(indices(p))
                et == spec.typ.elem.fields[f].typ.elem
            IN IF scanSucceeds(p)
               THEN /\ err.kind # "sliceLen"
                    /\ Len(Get(spec.val, <<1, f>>)[2]) = n
                    /\ \A e \in 0..(n - 1) : \A x \in 1..Len(et.fields) :
                          et.fields[x].typ.kind # "struct" =>
                             \E j \in 1..Len(infos) :
                                /\ isElementField(infos[j], f, e, x)
                                /\ infos[j].Key =
                                      p \o <<"_">> \o Itoa(e) \o <<"_">>
                                        \o ToUpper(aliasOrName(et.fields[x]))
               ELSE /\ err.kind = "sliceLen"
                    /\ infos = <<>>

HasSuffix(s, x) == Len(s) >= Len(x) /\ SubSeq(s, Len(s) - Len(x) + 1, Len(s)) = x

\* the prefix of the element a varInfo inside a slice of structs lies in
elementPrefix(i) ==
    slicePrefix(i.Field.path[2]) \o <<"_">> \o Itoa(i.Field.path[4] - 1)

\* k is a key of the field under the prefix of its element: it ends with
\* the alias of the field, or its name when it has none
indexQualified(k, i) ==
    /\ HasPrefix(k, elementPrefix(i) \o <<"_">>)
    /\ HasSuffix(k, <<"_">> \o ToUpper(IF i.Tags.envconfig # <<>>
                                       THEN i.Tags.envconfig ELSE i.Name))

\* C7 as stated: a field inside an element of a slice of structs, directly or through
\* nested structs, is resolved only from its index-qualified key; the
\* unprefixed variable named as its alias is never a fallback, for element
\* 0 as for every other one.
C7_AsStated ==
    /\ pc = "resolved" /\ insideElement(infos[idx]) /\ ok =>
          \E k \in DOMAIN env :
              indexQualified(k, infos[idx]) /\ value = env[k]
    /\ \A j \in passed :
          /\ insideElement(infos[j])
          /\ \A k \in DOMAIN env : ~indexQualified(k, infos[j])
          => stored(infos[j]) = Zero(infos[j].Field.typ)

\* C8: Process returns ErrInvalidSpecification whenever its argument is not
\* a pointer or points to something other than a struct (a nil pointer
\* included); nothing reachable from the argument is modified, and no
\* varInfo is gathered or looked up in the snapshot.
C8_InvalidSpecification ==
    ~validSpec /\ pc # "call" =>
        /\ err = ErrInvalidSpecification
        /\ spec.val = spec0
        /\ infos = <<>>
        /\ stack = <<>>
        /\ pc \in {"loop", "done"}

\* C8: Process has returned for a pointer to a map, called with variables
\* in the snapshot
C8_Witness ==
    /\ pc = "done"
    /\ spec.typ.kind = "ptr"
    /\ spec0 # NilPtr
    /\ spec.typ.elem.kind = "map"
    /\ err = ErrInvalidSpecification
    /\ DOMAIN env # {}

\* C9 as stated: when the raw value of a field cannot be converted, Process
\* returns a ParseError with the name of the field, its canonical key, the
\* raw string and the type of the field, and the field still holds the
\* value it had before the call (the zero value when its storage was made
\* by the call).
C9_AsStated ==
    failedWith("ParseError") =>
        LET i == infos[idx]
        IN /\ err.FieldName = i.Name
           /\ err.KeyName = i.Key
           /\ err.Value = value
           /\ err.TypeName = TypeString(i.Field.typ)
           /\ ~processField(value, i.Field.typ, Zero(i.Field.typ)).ok
           /\ IF ~insideElement(i) /\ HasPath(spec0, i.Field.path)
              THEN keptValue(i)
              ELSE stored(i) = Zero(i.Field.typ)

\* the raw value Process resolves for a field that has one
resolvable(i) == present(i) \/ i.Tags.default # <<>>

raw(i) ==
    IF i.Key \in DOMAIN env THEN env[i.Key]
    ELSE IF i.Alt # <<>> /\ i.Alt \in DOMAIN env THEN env[i.Alt]
    ELSE i.Tags.default

\* the field holds its raw value, converted
assigned(i) == stored(i) = processField(raw(i), i.Field.typ, stored(i)).val

\* the varInfo of the required field whose error Process returned
missing ==
    CHOOSE j \in 1..Len(infos) :
        /\ requirementUnmet(infos[j])
        /\ err.key = IF infos[j].Alt # <<>> THEN infos[j].Alt ELSE infos[j].Key

\* the fields of the record that follow the one varInfo j lies in
rootFieldsAfter(j) ==
    (infos[j].Field.path[2] + 1)..Len(spec.typ.elem.fields)

\* C10 as stated: when Process fails with the error of a missing required
\* key, every leaf field before it that had a value has been assigned it,
\* and no field after it is modified by the call.
C10_AsStated ==
    failedWith("required") =>
        /\ \A j \in 1..(missing - 1) : resolvable(infos[j]) => assigned(infos[j])
        /\ \A f \in rootFieldsAfter(missing) :
              Get(spec.val, <<1, f>>) = Get(spec0, <<1, f>>)

\* C10, amended: when Process fails with the error of a missing required
\* key, every leaf field before it that had a value has been assigned it,
\* and no leaf field after it has been assigned: it holds what it held
\* before the call, or the zero value when gatherInfo made its storage (a
\* nil pointer to a struct allocated, a slice of structs made anew).
C10_NothingAssignedAfterMissing ==
    failedWith("required") =>
        /\ \A j \in 1..(missing - 1) : resolvable(infos[j]) => assigned(infos[j])
        /\ \A j \in (missing + 1)..Len(infos) :
              IF ~insideElement(infos[j]) /\ HasPath(spec0, infos[j].Field.path)
              THEN keptValue(infos[j])
              ELSE stored(infos[j]) = Zero(infos[j].Field.typ)

\* C10: Process failed on a missing required key after it assigned a field
\* before it, and a field after it has a value in the snapshot that it was
\* not assigned
C10_Witness ==
    /\ failedWith("required")
    /\ \E j \in 1..(missing - 1) :
          /\ resolvable(infos[j])
          /\ assigned(infos[j])
          /\ stored(infos[j]) # Get(spec0, infos[j].Field.path)
    /\ \E j \in (missing + 1)..Len(infos) :
          /\ resolvable(infos[j])
          /\ ~assigned(infos[j])
          /\ keptValue(infos[j])

\* the type a pointer type leads to
RECURSIVE pointee(_)
pointee(t) == IF t.kind = "ptr" THEN pointee(t.elem) ELSE t

\* the field of the record Process was called with that the varInfo lies in
rootFieldOf(i) == spec.typ.elem.fields[i.Field.path[2]]

\* the varInfo is that of a field of a struct (or of the struct a pointer
\* leads to) that is itself a field of the record
inRootStruct(i) ==
    /\ pointee(rootFieldOf(i).typ).kind = "struct"
    /\ Len(i.Field.path) = IF rootFieldOf(i).typ.kind = "ptr" THEN 4 ELSE 3

\* the struct field the varInfo of a field of such a struct was made from
innerFieldOf(i) ==
    pointee(rootFieldOf(i).typ).fields[i.Field.path[Len(i.Field.path)]]

\* C11: the fields of an embedded struct without alias are resolved under
\* the prefix of the parent with no segment of their own, so that an outer
\* field and an embedded field of the same name share one key and both
\* receive its value; the fields of a named struct are resolved under the
\* key derived for the struct field.
C11_EmbeddedSharesPrefix ==
    /\ pc = "resolved" /\ inRootStruct(infos[idx]) =>
          LET i     == infos[idx]
              alias == innerFieldOf(i).tag.envconfig
              name  == aliasOrName(innerFieldOf(i))
              outer == aliasOrName(rootFieldOf(i))
          IN IF rootFieldOf(i).anonymous
             THEN consults(canonical(name), alias # <<>>, ToUpper(alias))
             ELSE consults(ToUpper(canonical(outer) \o <<"_">> \o name),
                           alias # <<>>, ToUpper(alias))
    /\ \A j \in passed : \A k \in passed :
          /\ inRootStruct(infos[j])
          /\ rootFieldOf(infos[j]).anonymous
          /\ isRootField(infos[k])
          /\ infos[k].Name = infos[j].Name
          /\ infos[j].Key \in DOMAIN env
          => /\ stored(infos[j]) = stored(infos[k])
             /\ assigned(infos[j])

\* C11: Process returned nil after it assigned the value of the one shared
\* key to an embedded field and to the outer field of the same name, which
\* differed before, while the snapshot also holds a variable named with a
\* segment for the embedded struct
C11_Witness ==
    /\ pc = "done"
    /\ err = NoErr
    /\ \E j \in passed : \E k \in passed :
          /\ inRootStruct(infos[j])
          /\ rootFieldOf(infos[j]).anonymous
          /\ isRootField(infos[k])
          /\ infos[k].Name = infos[j].Name
          /\ infos[j].Key \in DOMAIN env
          /\ stored(infos[j]) = stored(infos[k])
          /\ Get(spec0, infos[j].Field.path) # Get(spec0, infos[k].Field.path)
          /\ ToUpper(prefixed(rootFieldOf(infos[j]).name) \o <<"_">> \o infos[j].Name)
                \in DOMAIN env

\* the fields of the record that are tagged ignored
rootIgnored ==
    { f \in 1..Len(spec.typ.elem.fields) :
        spec.typ.elem.fields[f].tag.ignored = <<"t","r","u","e">> }

----------------------------------------------------------------------------
(* Properties of one call of processField (SpecField).                     *)

returned == pc = "returned"

\* the capabilities of the type of the field
offered == methodsOf(spec.typ)

\* m is offered and no capability before it in the order Decode, Set,
\* UnmarshalText, UnmarshalBinary is
firstOffered(m) ==
    /\ m \in offered
    /\ m = "Set" => "Decode" \notin offered
    /\ m = "UnmarshalText" => offered \cap {"Decode", "Set"} = {}
    /\ m = "UnmarshalBinary" => offered \cap {"Decode", "Set", "UnmarshalText"} = {}

\* the value the capability was called on: the field, or what it points to
receiver == IF spec.typ.kind = "ptr" THEN spec.val[1] ELSE spec.val

\* C13: when the type of the field offers some of Decode, Set, UnmarshalText
\* and UnmarshalBinary, the call of processField leaves in the field what
\* the first offered of them, in this order, makes of the raw value, and
\* nothing else: not what another capability makes of it, and not the
\* built-in conversion of the raw value to the underlying kind (whose
\* result would be a value of that kind, not what a capability leaves).
\* When the capability returns an error, that error is the result and the
\* field is as it was.
C13_FirstCapabilityOnly ==
    (returned /\ offered # {}) =>
        IF value \in refusedBy(spec.typ)
        THEN err = ConversionError /\ spec.val = spec0
        ELSE /\ err = NoErr
             /\ \E m \in offered : firstOffered(m) /\ receiver = Decoded(m, value)
             /\ \A m \in offered : ~firstOffered(m) => receiver # Decoded(m, value)

\* a field of an integer kind whose type offers all four capabilities was
\* given "5", which the built-in conversion would take for the number 5
C13_Witness ==
    /\ returned
    /\ offered = {"Decode", "Set", "UnmarshalText", "UnmarshalBinary"}
    /\ spec.typ.kind = "int"
    /\ value = <<"5">>
    /\ processField(value, TInt8, spec0) = [ok |-> TRUE, val |-> 5, panic |-> FALSE]
    /\ spec.val = Decoded("Decode", value)

----------------------------------------------------------------------------
(* Properties of the key derived from the name of a field.                 *)

\* a word starts at position i of the name s: at a capital that follows a
\* character that is none, and at the last capital of a run of capitals
\* that a character that is none follows
wordStart(s, i) ==
    /\ i > 1
    /\ IsUpper(s[i])
    /\ \/ ~IsUpper(s[i - 1])
       \/ i < Len(s) /\ ~IsUpper(s[i + 1])

\* the name from position i on, with "_" before every start of a word
RECURSIVE separated(_, _)
separated(s, i) ==
    IF i > Len(s) THEN <<>>
    ELSE (IF wordStart(s, i) THEN <<"_">> ELSE <<>>) \o <<s[i]>> \o separated(s, i + 1)

\* s without its "_"
RECURSIVE unseparated(_)
unseparated(s) ==
    IF s = <<>> THEN <<>>
    ELSE (IF Head(s) = "_" THEN <<>> ELSE <<Head(s)>>) \o unseparated(Tail(s))

\* what follows upper(prefix + "_") in the key of the varInfo, the whole
\* key when the prefix is empty
segment(i) == IF prefix = <<>> THEN i.Key ELSE From(i.Key, Len(prefix) + 1)

keyed == pc = "keyed"

\* C14: with split_words enabled and no alias, the key segment of a field
\* is its upper-cased name with "_" before every start of a word and nothing
\* else changed: a capital after a character that is none starts a word,
\* an acronym before a capitalised word is split before its last capital,
\* and a digit never starts a word.  Without split_words the segment is the
\* upper-cased name without separators.
C14_SplitWordsSegment ==
    keyed /\ infos[1].Tags.envconfig = <<>> =>
        LET i == infos[1]
        IN /\ prefix # <<>> => HasPrefix(i.Key, ToUpper(prefix) \o <<"_">>)
           /\ isTrue(i.Tags.split_words) =>
                 /\ segment(i) = ToUpper(separated(i.Name, 1))
                 /\ unseparated(segment(i)) = unseparated(ToUpper(i.Name))
                 /\ \A k \in 2..Len(segment(i)) :
                        IsDigit(segment(i)[k]) => segment(i)[k - 1] # "_"
           /\ ~isTrue(i.Tags.split_words) => segment(i) = ToUpper(i.Name)

named(i, name, seg) == i.Name = name /\ segment(i) = seg

\* gatherInfo has derived P_HTTP_SERVER for the field HTTPServer without
\* alias under the prefix p, split_words being enabled
C14_Witness ==
    /\ keyed
    /\ prefix = pfxP
    /\ infos[1].Tags.envconfig = <<>>
    /\ isTrue(infos[1].Tags.split_words)
    /\ named(infos[1], <<"H","T","T","P","S","e","r","v","e","r">>, <<"H","T","T","P","_","S","E","R","V","E","R">>)
    /\ infos[1].Key = <<"P","_","H","T","T","P","_","S","E","R","V","E","R">>

\* the positions of the separator sep in s
separators(s, sep) == { i \in 1..Len(s) : s[i] = sep }

\* the position of the k-th separator of s; 0 for k = 0 and Len(s) + 1 when
\* s has fewer than k separators
separatorAt(s, sep, k) ==
    IF k = 0 THEN 0
    ELSE IF k > Cardinality(separators(s, sep)) THEN Len(s) + 1
    ELSE CHOOSE i \in separators(s, sep) :
             Cardinality({ j \in separators(s, sep) : j < i }) = k - 1

\* the pieces of s between its separators, in order
pieceCount(s, sep) == Cardinality(separators(s, sep)) + 1
piece(s, sep, k) ==
    SubSeq(s, separatorAt(s, sep, k - 1) + 1, separatorAt(s, sep, k) - 1)

\* the field is a sequence other than []byte, the sequence of bytes
isSequence ==
    /\ spec.typ.kind = "slice"
    /\ spec.typ.elem # TUint8

\* processField takes the branch of line 359 for the field: the kind of the
\* element type is uint8, be it byte or a type defined over it
byteBranch == spec.typ.elem.kind = "uint" /\ spec.typ.elem.bits = 8

\* the call is over: processField has returned, or it has panicked
ended == pc \in {"returned", "panic"}

\* the conversion of the k-th comma-separated piece to the element type
element(k) == processField(piece(value, ",", k), spec.typ.elem, Zero(spec.typ.elem))

\* the field holds one element per piece, in order, and no error is returned
onePerPiece ==
    /\ err = NoErr
    /\ spec.val = <<FALSE, [k \in 1..pieceCount(value, ",") |-> element(k).val]>>

emptySequence == err = NoErr /\ spec.val = <<FALSE, <<>>>>

keptWithError == err # NoErr /\ spec.val = spec0

\* s has no character that is not white space
blank(s) == \A i \in 1..Len(s) : s[i] \in Whitespace

\* C15 as stated: coercing a raw string into a sequence other than []byte
\* yields an empty sequence for the empty raw string and one element per
\* comma-separated piece for every other one if every piece converts, and
\* leaves the field as it was, with the error of the element, otherwise
C15_AsStated ==
    ended /\ isSequence =>
        /\ returned
        /\ IF value = <<>> THEN emptySequence
           ELSE IF \A k \in 1..pieceCount(value, ",") : element(k).ok THEN onePerPiece
           ELSE keptWithError

\* what the code does when the kind of the element type is not uint8 and
\* processField returns: a raw string that is empty or holds only white
\* space yields an empty sequence and no error, whatever the type of the
\* elements; every other raw string yields one element per piece if every
\* piece converts, and leaves the field as it was, with an error, otherwise
C15_BlankIsEmptySequence ==
    returned /\ isSequence /\ ~byteBranch =>
        IF blank(value) THEN emptySequence
        ELSE IF \A k \in 1..pieceCount(value, ",") : element(k).ok THEN onePerPiece
        ELSE keptWithError

\* what the code does for a sequence of a type defined over uint8: the
\* bytes of the raw string are not assignable to it, and field.Set panics
C15_DefinedByteSequencePanics ==
    ended /\ isSequence /\ byteBranch => pc = "panic" /\ spec.val = spec0

\* processField has panicked on "1,2,3" for a field of type []myByte
C15_PanicOnDefinedBytes ==
    /\ pc = "panic"
    /\ spec.typ = TSlice(MyByteT)
    /\ value = <<"1", ",", "2", ",", "3">>

isMap == spec.typ.kind = "map"

\* the k-th comma-separated pair of the raw value, and its parts
pair(k) == piece(value, ",", k)
pairs == 1..pieceCount(value, ",")
pairKey(k) == processField(piece(pair(k), ":", 1), spec.typ.key, Zero(spec.typ.key))
pairVal(k) == processField(piece(pair(k), ":", 2), spec.typ.elem, Zero(spec.typ.elem))

\* the pair splits on ":" into exactly two parts that both convert
pairConverts(k) ==
    /\ pieceCount(pair(k), ":") = 2
    /\ pairKey(k).ok
    /\ pairVal(k).ok

\* the map of the pairs; of two pairs with one key the later one stays
mapOfPairs ==
    [x \in { pairKey(k).val : k \in pairs } |->
        pairVal(CHOOSE k \in pairs :
                    /\ pairKey(k).val = x
                    /\ \A j \in pairs : pairKey(j).val = x => j <= k).val]

mapAssigned == err = NoErr /\ spec.val = <<FALSE, mapOfPairs>>

emptyMap == err = NoErr /\ spec.val[1] = FALSE /\ DOMAIN spec.val[2] = {}

\* C16 as stated: whatever the raw value, the field becomes the map of its
\* pairs if every pair converts, and a pair without ":" or with more than
\* one makes the conversion fail, the field keeping its value
C16_AsStated ==
    returned /\ isMap =>
        IF \A k \in pairs : pairConverts(k) THEN mapAssigned ELSE keptWithError

\* C16, amended: a raw value that is empty or holds only white space yields
\* the empty map and no error; every other raw value is split on "," into
\* pairs and each pair on ":", the field becomes the map of the pairs (the
\* later of two pairs with one key) if every pair has exactly two parts
\* that both convert, and the conversion fails, the field keeping its
\* value, otherwise.
C16_BlankIsEmptyMap ==
    returned /\ isMap =>
        IF blank(value) THEN emptyMap
        ELSE IF \A k \in pairs : pairConverts(k) THEN mapAssigned
        ELSE keptWithError

\* "k:1,j:2" was converted to the map of k to 1 and j to 2
C16_Witness ==
    /\ returned
    /\ spec.typ = TMap(TString, TInt8)
    /\ value = <<"k", ":", "1", ",", "j", ":", "2">>
    /\ err = NoErr
    /\ DOMAIN spec.val[2] = { <<"k">>, <<"j">> }
    /\ spec.val[2][<<"k">>] = 1
    /\ spec.val[2][<<"j">>] = 2

\* the digits and their values, written out
digitsOf(base) ==
    LET all == << <<"0">>, <<"1">>, <<"2">>, <<"3">>, <<"4">>, <<"5">>, <<"6">>, <<"7">>,
                  <<"8">>, <<"9">>, <<"a", "A">>, <<"b", "B">>, <<"c", "C">>,
                  <<"d", "D">>, <<"e", "E">>, <<"f", "F">> >>
    IN [v \in 0..(base - 1) |-> { all[v + 1][k] : k \in 1..Len(all[v + 1]) }]

isDigitOf(c, base) == \E v \in 0..(base - 1) : c \in digitsOf(base)[v]
valueOf(c, base) == CHOOSE v \in 0..(base - 1) : c \in digitsOf(base)[v]

\* the literal without its sign, when the field is signed and it has one
unsignedPart(s, signed) ==
    IF signed /\ s # <<>> /\ s[1] \in {"+", "-"} THEN Tail(s) ELSE s

\* the base a literal without sign is written in, and where its digits start
basePrefixed(u) == Len(u) >= 3 /\ u[1] = "0" /\ u[2] \in {"b", "B", "o", "O", "x", "X"}
baseOf(u) ==
    IF basePrefixed(u)
    THEN (IF u[2] \in {"b", "B"} THEN 2 ELSE IF u[2] \in {"o", "O"} THEN 8 ELSE 16)
    ELSE IF u # <<>> /\ u[1] = "0" THEN 8 ELSE 10
digitsFrom(u) == IF basePrefixed(u) THEN 3 ELSE 1

\* u is an integer literal: digits of its base, with single "_" allowed
\* after the base prefix and between digits
isLiteral(u) ==
    /\ u # <<>>
    /\ \A k \in digitsFrom(u)..Len(u) :
          \/ isDigitOf(u[k], baseOf(u))
          \/ /\ u[k] = "_"
             /\ k < Len(u) /\ isDigitOf(u[k + 1], baseOf(u))
             /\ k > 1
             /\ isDigitOf(u[k - 1], baseOf(u)) \/ (basePrefixed(u) /\ k = 3)

\* base^n
RECURSIVE power(_, _)
power(base, n) == IF n = 0 THEN 1 ELSE base * power(base, n - 1)

\* the number the digits of u from position k on denote
RECURSIVE numberFrom(_, _)
numberFrom(u, k) ==
    IF k > Len(u) THEN 0
    ELSE IF u[k] = "_" THEN numberFrom(u, k + 1)
    ELSE valueOf(u[k], baseOf(u))
             * power(baseOf(u), Cardinality({ j \in (k + 1)..Len(u) : u[j] # "_" }))
         + numberFrom(u, k + 1)

\* the raw value denotes a number for a field of this signedness, and which
denotesNumber(s, signed) == isLiteral(unsignedPart(s, signed))
numberOf(s, signed) ==
    LET n == numberFrom(unsignedPart(s, signed), digitsFrom(unsignedPart(s, signed)))
    IN IF signed /\ s[1] = "-" THEN 0 - n ELSE n

\* the range of a width
inRangeOf(n, signed, bits) ==
    IF signed THEN 0 - power(2, bits - 1) <= n /\ n <= power(2, bits - 1) - 1
    ELSE 0 <= n /\ n <= power(2, bits) - 1

isInteger == spec.typ.kind \in {"int", "uint"} /\ offered = {}
signedField == spec.typ.kind = "int"

\* C17: an integer field of width W accepts a raw value if and only if the
\* value denotes a number (an integer literal, with a sign only for a signed
\* field) inside the range of W, and then holds this number; every other
\* raw value, a number outside the range and a negative number for an
\* unsigned field included, yields an error and leaves the field as it was:
\* no wrapped or truncated number is stored.
C17_AcceptedIffInRange ==
    returned /\ isInteger =>
        IF /\ denotesNumber(value, signedField)
           /\ inRangeOf(numberOf(value, signedField), signedField, spec.typ.bits)
        THEN err = NoErr /\ spec.val = numberOf(value, signedField)
        ELSE err # NoErr /\ spec.val = spec0

\* an int8 field that held 9 was given "128", and a uint8 field "-1": the
\* state is that of the int8 field, refused and unchanged
C17_Witness ==
    /\ returned
    /\ spec.typ = TInt8
    /\ value = <<"1", "2", "8">>
    /\ denotesNumber(value, TRUE)
    /\ numberOf(value, TRUE) = 128
    /\ err # NoErr
    /\ spec.val = 9

----------------------------------------------------------------------------
(* Properties of Process on an empty environment (Spec).                   *)

\* no field of the type, at any depth, has a required or a default tag
RECURSIVE plainShape(_)
plainShape(t) ==
    CASE t.kind = "struct" ->
           \A f \in 1..Len(t.fields) :
               /\ t.fields[f].tag.required = <<>>
               /\ t.fields[f].tag.default = <<>>
               /\ plainShape(t.fields[f].typ)
      [] t.kind \in {"ptr", "slice"} -> plainShape(t.elem)
      [] OTHER -> TRUE

\* Process was called on a zero record, with an empty environment
emptyCall ==
    /\ validSpec
    /\ DOMAIN env = {}
    /\ spec0 = <<Zero(spec.typ.elem)>>

\* ... and has returned
emptyRun == pc = "done" /\ emptyCall

\* the value of a record of type t of which gatherInfo has visited every
\* field and Process has assigned none: zero, except that a nil pointer to
\* a record points to such a record and a sequence of records is empty
\* instead of nil
RECURSIVE visitedZero(_)
visitedZero(t) ==
    CASE t.kind = "struct" ->
           [f \in 1..Len(t.fields) |->
               IF ~t.fields[f].exported \/ isTrue(t.fields[f].tag.ignored)
               THEN Zero(t.fields[f].typ)
               ELSE visitedZero(t.fields[f].typ)]
      [] t.kind = "ptr" /\ t.elem.kind = "struct" -> <<visitedZero(t.elem)>>
      [] t.kind = "slice" /\ pointee(t.elem).kind = "struct" -> <<FALSE, <<>>>>
      [] OTHER -> Zero(t)

\* C18 as stated: with an empty environment and no required or default tag
\* Process returns, with no error, and every field has its zero value
C18_AsStated ==
    emptyCall /\ plainShape(spec.typ) =>
        /\ pc # "fatal"
        /\ pc = "done" =>
              /\ err = NoErr
              /\ spec.val = <<Zero(spec.typ.elem)>>

\* what the code does when Process returns: no error, and every field has
\* its zero value except that a pointer-to-record field that is not ignored
\* points to a new record (whose fields are left in the same way) and a
\* sequence-of-records field that is not ignored is an empty sequence that
\* is not nil
C18_ZeroButAllocated ==
    emptyRun /\ plainShape(spec.typ) =>
        /\ err = NoErr
        /\ spec.val = <<visitedZero(spec.typ.elem)>>

\* what the code does for the record that points to its own type: Process
\* does not return
C18_SelfReferentialNeverReturns ==
    emptyCall /\ spec.typ.elem = NodeT => pc # "done"

\* Process has returned nil for a zero Plain record and an empty
\* environment: Name and Opt are zero, Ptr points to a Sub and List is empty
C18_PlainAllocated ==
    /\ emptyRun
    /\ spec.typ.elem = PlainT
    /\ err = NoErr
    /\ spec.val[1][1] = <<>>
    /\ spec.val[1][2] = NilPtr
    /\ spec.val[1][3] = << <<FALSE>> >>
    /\ spec.val[1][4] = <<FALSE, <<>>>>

\* the runtime has ended the program in a call of Process on a zero Node
\* with an empty environment
C18_NodeFatal == emptyCall /\ spec.typ.elem = NodeT /\ pc = "fatal"

----------------------------------------------------------------------------
(* Termination of Process (FairSpec).                                      *)

\* Process has returned: with nil, or with one error
hasReturned == pc = "done"

\* C19 as stated: every call of Process returns, with success or with one
\* error, whatever the record definition, one with a pointer field to the
\* type of the record itself included
C19_AsStated == <>hasReturned

\* a call of Process ends: it returns, or the program ends with the fatal
\* error of a stack overflow
C19_Ends == <>(hasReturned \/ pc = "fatal")

\* a record definition that refers to itself
selfReferential ==
    /\ validSpec
    /\ \E f \in 1..Len(spec.typ.elem.fields) :
           /\ spec.typ.elem.fields[f].typ.kind = "ptr"
           /\ Elem(spec.typ.elem.fields[f].typ) = spec.typ.elem

\* only a call on a record definition that refers to itself ends without
\* having returned
C19_FatalOnlySelfReferential == pc = "fatal" => selfReferential

----------------------------------------------------------------------------
(* Properties of the lookup function of a reader (SpecReader).             *)

built == pc = "built"

\* the lines of the buffer that are not empty, by their number
bufferLines == { j \in 1..pieceCount(spec.val, "\n") : piece(spec.val, "\n", j) # <<>> }

\* KEY and VALUE of line j: what precedes and what follows its first "="
lineKey(j) == piece(piece(spec.val, "\n", j), "=", 1)
lineValue(j) ==
    LET l == piece(spec.val, "\n", j)
    IN SubSeq(l, separatorAt(l, "=", 1) + 1, Len(l))

\* the keys that appear in the buffer, and the value of the last line of a key
bufferKeys == { lineKey(j) : j \in bufferLines }
bufferValue(k) ==
    lineValue(CHOOSE j \in bufferLines :
                  /\ lineKey(j) = k
                  /\ \A i \in bufferLines : lineKey(i) = k => i <= j)

\* C20 as stated: the lookup function returns (VALUE, true) for every KEY of
\* the buffer, keys with "_" included, and found = false for every other key
C20_AsStated ==
    built =>
        /\ \A k \in bufferKeys :
               readerLookup(k) = [value |-> bufferValue(k), ok |-> TRUE]
        /\ \A k \in (ReaderKeys \cup DOMAIN env) \ bufferKeys : ~readerLookup(k).ok

\* the test of the repository: a buffer of one line whose key has no "_" is
\* looked up as the claim says
C20_PlainLine ==
    built /\ spec.val = <<"U","S","E","R","=","x","-","g">> =>
        /\ readerLookup(<<"U","S","E","R">>) = [value |-> <<"x","-","g">>, ok |-> TRUE]
        /\ DOMAIN env = { <<"U","S","E","R">> }

----------------------------------------------------------------------------
(* CheckDisallowed: the variables of the environment that no field reads.  *)

\* line 231: the error that names the variable
unknownVariable(key) == [kind |-> "unknown", key |-> key]

\* lines 226-234: the range over env, in the order in which it yields the
\* keys; the first key under the prefix that is not in vars ends it
RECURSIVE disallowedScan(_, _, _, _)
disallowedScan(p, known, order, i) ==
    IF i > Len(order) THEN NoErr
    ELSE IF ~HasPrefix(order[i], p) THEN disallowedScan(p, known, order, i + 1)
    ELSE IF order[i] \notin known THEN unknownVariable(order[i])
    ELSE disallowedScan(p, known, order, i + 1)

\* lines 223-225: the prefix the keys are tested against
disallowedPrefix(pfx) == IF pfx # <<>> THEN ToUpper(pfx) \o <<"_">> ELSE pfx

\* lines 218-221: vars, the Key of every varInfo
disallowedVars(infs) == { infs[i].Key : i \in 1..Len(infs) }

\* lines 218-237: what CheckDisallowed returns once the varInfos are gathered
checkDisallowed(pfx, infs, order) ==
    disallowedScan(disallowedPrefix(pfx), disallowedVars(infs), order, 1)

\* the keys of an environment for a Nested record without a prefix
BareKeys ==
    { <<"N","A","M","E">>,
      <<"S","U","B","_","F","L","A","G">>,
      <<"F","L","A","G">>,
      <<"A","L","T","_","0","_","K","E","Y">>,
      <<"A","L","T","_","X">>,
      <<"B","O","G","U","S">> }

AuditValues == { <<"1">> }

\* the calls of CheckDisallowed: Tagged and Nested records with and without
\* a prefix, a spec that is not a struct pointer, and a Node
AuditCases(family) ==
    CASE family = 1 ->
           { Input(p, TPtr(TaggedT(tag)), << << 0, <<>>, NilPtr >> >>,
                   TaggedKeys(p), AuditValues) :
               p \in { <<>>, pfxP },
               tag \in { NoTag, Tag(<< <<keyEnvconfig, <<"s","v","c">>>> >>) } }
      [] family = 2 ->
           { Input(pfxP, TPtr(NestedT), <<Zero(NestedT)>>, NestedKeys, AuditValues),
             Input(<<>>, TPtr(NestedT), <<Zero(NestedT)>>, BareKeys, AuditValues) }
      [] family = 3 ->
           { Input(pfxP, TaggedT(NoTag), << 0, <<>>, NilPtr >>,
                   TaggedKeys(pfxP), AuditValues) }
      [] family = 4 ->
           { Input(pfxP, TPtr(NodeT), <<Zero(NodeT)>>, NodeKeys, AuditValues) }

AuditFamilies == 1..4

InitAudit ==
    \E family \in AuditFamilies : \E c \in AuditCases(family) :
        /\ prefix = c.prefix
        /\ env \in Environments(c.keys, c.values)
        /\ spec = [typ |-> c.typ, val |-> c.val]
        /\ spec0 = c.val
        /\ stack = <<>>
        /\ infos = <<>>
        /\ idx = 0
        /\ value = <<>>
        /\ ok = FALSE
        /\ err = NoErr
        /\ pc = "call"

\* lines 212-237: after gatherInfoForProcessing, its error is returned, or
\* the environment is ranged over
CheckDisallowed ==
    /\ pc = "loop"
    /\ IF err # NoErr
       THEN UNCHANGED err
       ELSE \E order \in Orders(DOMAIN env) :
                err' = checkDisallowed(prefix, infos, order)
    /\ pc' = "checked"
    /\ UNCHANGED <<prefix, env, spec, spec0, stack, infos, idx, value, ok>>

NextCheck ==
    \/ Call
    \/ GatherIgnored
    \/ GatherLeaf
    \/ GatherStruct
    \/ StackOverflow
    \/ GatherSlice
    \/ GatherSliceErr
    \/ GatherElem
    \/ GatherReturn
    \/ CheckDisallowed

SpecCheck == InitAudit /\ [][NextCheck]_vars

----------------------------------------------------------------------------
(* Properties of CheckDisallowed (SpecCheck).                              *)

checked == pc = "checked"

\* gatherInfoForProcessing returned no error of its own
gatheredAll == err.kind \notin { "ErrInvalidSpecification", "sliceLen" }

\* the keys Process would look up for the fields gathered: the canonical
\* key of every field, and the alias key of every field that keeps one
canonicalKeys == { infos[i].Key : i \in 1..Len(infos) }
aliasKeys == { infos[i].Alt : i \in { j \in 1..Len(infos) : infos[j].Alt # <<>> } }

\* the variables of the environment the call is about: those whose name
\* begins with upper(prefix) + "_", all of them when the prefix is empty
audited ==
    { k \in DOMAIN env :
        prefix = <<>> \/ HasPrefix(k, ToUpper(prefix) \o <<"_">>) }

\* C21 as stated: CheckDisallowed returns an "unknown environment variable"
\* error if and only if the environment holds a variable under the prefix
\* that Process would consult neither as a canonical key nor as an alias key
C21_AsStated ==
    checked /\ gatheredAll =>
        (err.kind = "unknown" <=> audited \ (canonicalKeys \cup aliasKeys) # {})

\* what the code does: the alias keys are not in vars, so a variable under
\* the prefix is reported unless it is the canonical key of a field
C21_CanonicalOnly ==
    checked /\ gatheredAll =>
        /\ err.kind = "unknown" <=> audited \ canonicalKeys # {}
        /\ err.kind = "unknown" => err.key \in audited \ canonicalKeys

\* a variable that is the alias key of a field is reported as unknown
C21_AliasReported ==
    /\ checked
    /\ err.kind = "unknown"
    /\ err.key \in aliasKeys

----------------------------------------------------------------------------
(* regexp.Compile and Regexp.MatchString (regexp/syntax with the flags of  *)
(* syntax.Perl, as in Go 1.22 to 1.24) for the patterns applicableRegex    *)
(* builds: ".+" and "^" + strings.ToUpper(prefix) + "_".  Such a pattern   *)
(* holds no lower-case letter, so of the escapes and flags that are        *)
(* letters only the upper-case ones are worked out.  The limits on the     *)
(* size of the program (more than a thousand nested groups, millions of    *)
(* instructions) are out of the reach of a short prefix and left out.      *)

IsLetter(c) ==
    \/ \E k \in DOMAIN UpperLetters : UpperLetters[k] = c
    \/ \E k \in DOMAIN LowerLetters : LowerLetters[k] = c

\* [0-9A-Za-z_], the word characters of \W and \B
isWordChar(c) == IsDigit(c) \/ IsLetter(c) \/ c = "_"

\* the major general category of a character (unicode.Categories)
category(c) ==
    CASE IsLetter(c) -> "L"
      [] IsDigit(c) -> "N"
      [] c \in {"!","\"","#","%","&","'","(",")","*",",","-",".","/",":",
                ";","?","@","[","\\","]","_","{","}"} -> "P"
      [] c \in {"$","+","<","=",">","^","U+0060","|","~"} -> "S"
      [] OTHER -> IF Ord(c) < 32 \/ Ord(c) \in 127..159 THEN "C" ELSE "Z"

\* the errors of regexp/syntax (ErrorCode)
ErrMissingParen          == "missing closing )"
ErrUnexpectedParen       == "unexpected )"
ErrMissingBracket        == "missing closing ]"
ErrInvalidCharRange      == "invalid character class range"
ErrInvalidEscape         == "invalid escape sequence"
ErrTrailingBackslash     == "trailing backslash at end of expression"
ErrInvalidRepeatOp       == "invalid nested repetition operator"
ErrMissingRepeatArgument == "missing argument to repetition operator"
ErrInvalidRepeatSize     == "invalid repeat count"
ErrInvalidNamedCapture   == "invalid named capture"
ErrInvalidPerlOp         == "invalid or unsupported Perl syntax"

\* a syntax.Regexp, and the pseudo-operators of the stack of the parser:
\* ch is the rune of a literal, a and b are the operands, min and max the
\* counts of a repetition, neg and items the sign and the parts of a class,
\* n says how many operands there are
Regexp(op) ==
    [op |-> op, ch |-> "", n |-> 0, a |-> <<>>, b |-> <<>>, min |-> 0, max |-> 0,
     neg |-> FALSE, items |-> {}]

Literal(c) == [Regexp("lit") EXCEPT !.ch = c]

\* a part of a class: the runes lo to hi, a Perl class (\D, \S, \W) or the
\* runes outside (neg) or inside a category
ClassItem(kind, lo, hi, name, neg) ==
    [kind |-> kind, lo |-> lo, hi |-> hi, name |-> name, neg |-> neg]

CharClass(neg, items) == [Regexp("class") EXCEPT !.neg = neg, !.items = items]

opLeftParen   == "lparen"
opVerticalBar == "vbar"

itemHas(it, c) ==
    CASE it.kind = "range" -> Ord(c) \in it.lo..it.hi
      [] it.kind = "perl" ->
           CASE it.name = "D" -> ~IsDigit(c)
             [] it.name = "S" -> c \notin {"\t", "\n", "\f", "\r", " "}
             [] OTHER -> ~isWordChar(c)
      [] OTHER -> (category(c) = it.name) # it.neg

inClass(re, c) == (\E it \in re.items : itemHas(it, c)) # re.neg

\* the operands of a node
subs(re) ==
    CASE re.n = 0 -> <<>>
      [] re.n = 1 -> <<re.a>>
      [] OTHER -> <<re.a, re.b>>

\* syntax.repeatIsValid
RECURSIVE repeatIsValid(_, _)
repeatIsValid(re, n) ==
    IF re.op = "repeat" /\ re.max = 0 THEN TRUE
    ELSE IF re.op = "repeat" /\ (IF re.max < 0 THEN re.min ELSE re.max) > n THEN FALSE
    ELSE \A k \in DOMAIN subs(re) :
            repeatIsValid(subs(re)[k],
                IF re.op = "repeat" /\ (IF re.max < 0 THEN re.min ELSE re.max) > 0
                THEN n \div (IF re.max < 0 THEN re.min ELSE re.max)
                ELSE n)

\* the end of the digits of t from position i
RECURSIVE digitsEnd(_, _)
digitsEnd(t, i) == IF i <= Len(t) /\ IsDigit(t[i]) THEN digitsEnd(t, i + 1) ELSE i

\* the value of the digits of t from i up to e, -1 from 10^8 on
RECURSIVE digitsValue(_, _, _, _)
digitsValue(t, i, e, n) ==
    IF i >= e THEN n
    ELSE IF n >= 100000000 THEN -1
    ELSE digitsValue(t, i + 1, e, n * 10 + DigitVal(t[i]))

\* parser.parseInt at position i: no number, or a number with zeros in
\* front, is refused
parseInt(t, i) ==
    IF i > Len(t) \/ ~IsDigit(t[i])
    THEN [ok |-> FALSE, n |-> 0, i |-> i]
    ELSE IF i + 1 <= Len(t) /\ t[i] = "0" /\ IsDigit(t[i + 1])
    THEN [ok |-> FALSE, n |-> 0, i |-> i]
    ELSE [ok |-> TRUE, n |-> digitsValue(t, i, digitsEnd(t, i), 0), i |-> digitsEnd(t, i)]

NoRepeat == [ok |-> FALSE, min |-> 0, max |-> 0, i |-> 0]

\* parser.parseRepeat after the minimum lo and a ","
repeatMax(t, lo) ==
    IF lo.i + 1 > Len(t) THEN NoRepeat
    ELSE IF t[lo.i + 1] = "}"
    THEN [ok |-> TRUE, min |-> lo.n, max |-> -1, i |-> lo.i + 2]
    ELSE LET hi == parseInt(t, lo.i + 1)
         IN IF ~hi.ok \/ hi.i > Len(t) \/ t[hi.i] # "}" THEN NoRepeat
            ELSE [ok |-> TRUE, min |-> IF hi.n < 0 THEN -1 ELSE lo.n,
                  max |-> hi.n, i |-> hi.i + 1]

\* parser.parseRepeat after the minimum lo
repeatAfterMin(t, lo) ==
    IF ~lo.ok \/ lo.i > Len(t) THEN NoRepeat
    ELSE IF t[lo.i] = "," THEN repeatMax(t, lo)
    ELSE IF t[lo.i] = "}"
    THEN [ok |-> TRUE, min |-> lo.n, max |-> lo.n, i |-> lo.i + 1]
    ELSE NoRepeat

\* parser.parseRepeat at a "{" at position i: {n}, {n,} or {n,m}
parseRepeat(t, i) == repeatAfterMin(t, parseInt(t, i + 1))

IsOctal(c) == c \in {"0","1","2","3","4","5","6","7"}

\* the value of up to n octal digits of t from position i, after r
RECURSIVE octal(_, _, _, _)
octal(t, i, n, r) ==
    IF n = 0 \/ i > Len(t) \/ ~IsOctal(t[i]) THEN [err |-> "", c |-> r, i |-> i]
    ELSE octal(t, i + 1, n - 1, r * 8 + DigitVal(t[i]))

\* parser.parseEscape at a "\" at position i: the rune and where the pattern
\* goes on; a, f, n, r, t, v and x are lower-case
parseEscape(t, i) ==
    IF i + 1 > Len(t) THEN [err |-> ErrTrailingBackslash, c |-> 0, i |-> i]
    ELSE IF t[i + 1] = "0" THEN octal(t, i + 2, 2, 0)
    ELSE IF IsOctal(t[i + 1])
    THEN IF i + 2 > Len(t) \/ ~IsOctal(t[i + 2])
         THEN [err |-> ErrInvalidEscape, c |-> 0, i |-> i]
         ELSE octal(t, i + 2, 2, DigitVal(t[i + 1]))
    ELSE IF Ord(t[i + 1]) < 128 /\ ~IsDigit(t[i + 1]) /\ ~IsLetter(t[i + 1])
    THEN [err |-> "", c |-> Ord(t[i + 1]), i |-> i + 2]
    ELSE [err |-> ErrInvalidEscape, c |-> 0, i |-> i]

\* the first position from i on where t holds the character c, 0 if none
IndexFrom(t, i, c) ==
    IF \E k \in i..Len(t) : t[k] = c
    THEN CHOOSE k \in i..Len(t) : t[k] = c /\ \A j \in i..(k - 1) : t[j] # c
    ELSE 0

\* the class of a name of a category, the sign turned by a "^" in front:
\* of the names without a lower-case letter only the major categories are
\* in unicode.Categories and unicode.Scripts
unicodeTable(name, neg, i) ==
    IF name # <<>> /\ name[1] = "^"
    THEN IF Len(name) = 2 /\ name[2] \in {"C","L","M","N","P","S","Z"}
         THEN [err |-> "", item |-> ClassItem("cat", 0, 0, name[2], ~neg), i |-> i]
         ELSE [err |-> ErrInvalidCharRange, item |-> ClassItem("cat", 0, 0, "", neg), i |-> i]
    ELSE IF Len(name) = 1 /\ name[1] \in {"C","L","M","N","P","S","Z"}
         THEN [err |-> "", item |-> ClassItem("cat", 0, 0, name[1], neg), i |-> i]
         ELSE [err |-> ErrInvalidCharRange, item |-> ClassItem("cat", 0, 0, "", neg), i |-> i]

\* parser.parseUnicodeClass at "\P" at position i: \PL, \P{L}, \P{^L}
parseUnicodeClass(t, i) ==
    IF i + 2 > Len(t) THEN unicodeTable(<<>>, TRUE, i + 2)
    ELSE IF t[i + 2] # "{" THEN unicodeTable(<<t[i + 2]>>, TRUE, i + 3)
    ELSE IF IndexFrom(t, i, "}") = 0 THEN unicodeTable(<<>>, TRUE, i + 2)
    ELSE unicodeTable(SubSeq(t, i + 3, IndexFrom(t, i, "}") - 1), TRUE,
                      IndexFrom(t, i, "}") + 1)

\* parser.parseClassChar: a rune of a class, escaped or not
parseClassChar(t, i) ==
    IF i > Len(t) THEN [err |-> ErrMissingBracket, c |-> 0, i |-> i]
    ELSE IF t[i] = "\\" THEN parseEscape(t, i)
    ELSE [err |-> "", c |-> Ord(t[i]), i |-> i + 1]

\* a rune lo of a class and the range it may start: [a-] is a or "-"
classRange(t, lo) ==
    IF lo.err # "" THEN [err |-> lo.err, item |-> ClassItem("range", 0, 0, "", FALSE), i |-> lo.i]
    ELSE IF lo.i + 1 <= Len(t) /\ t[lo.i] = "-" /\ t[lo.i + 1] # "]"
    THEN LET hi == parseClassChar(t, lo.i + 1)
         IN [err |-> IF hi.err # "" THEN hi.err
                     ELSE IF hi.c < lo.c THEN ErrInvalidCharRange ELSE "",
             item |-> ClassItem("range", lo.c, hi.c, "", FALSE), i |-> hi.i]
    ELSE [err |-> "", item |-> ClassItem("range", lo.c, lo.c, "", FALSE), i |-> lo.i]

\* one pass of the loop of parser.parseClass at position i: a POSIX class
\* ([:alpha:], no name of which is without lower-case letters), a category,
\* a Perl class, a rune or a range
classPart(t, i) ==
    IF i > Len(t) THEN [err |-> ErrMissingBracket, item |-> ClassItem("range", 0, 0, "", FALSE), i |-> i]
    ELSE IF /\ Len(t) - i + 1 > 2 /\ t[i] = "[" /\ t[i + 1] = ":"
            /\ \E k \in (i + 2)..(Len(t) - 1) : t[k] = ":" /\ t[k + 1] = "]"
    THEN [err |-> ErrInvalidCharRange, item |-> ClassItem("range", 0, 0, "", FALSE), i |-> i]
    ELSE IF t[i] = "\\" /\ i + 1 <= Len(t) /\ t[i + 1] = "P" THEN parseUnicodeClass(t, i)
    ELSE IF t[i] = "\\" /\ i + 1 <= Len(t) /\ t[i + 1] \in {"D", "S", "W"}
    THEN [err |-> "", item |-> ClassItem("perl", 0, 0, t[i + 1], FALSE), i |-> i + 2]
    ELSE classRange(t, parseClassChar(t, i))

\* the loop of parser.parseClass: the first "]" is a rune of the class
RECURSIVE classLoop(_, _, _, _, _)
classLoop(t, i, first, neg, items) ==
    IF i <= Len(t) /\ t[i] = "]" /\ ~first
    THEN [err |-> "", re |-> CharClass(neg, items), i |-> i + 1]
    ELSE LET part == classPart(t, i)
         IN IF part.err # ""
            THEN [err |-> part.err, re |-> CharClass(neg, items), i |-> i]
            ELSE classLoop(t, part.i, FALSE, neg, items \cup {part.item})

\* parser.parseClass at a "[" at position i
parseClass(t, i) ==
    IF i + 1 <= Len(t) /\ t[i + 1] = "^"
    THEN classLoop(t, i + 2, TRUE, TRUE, {})
    ELSE classLoop(t, i + 1, TRUE, FALSE, {})

\* what a group "(?" is: an error, flags alone (push is ""), a group or a
\* named group
PerlFlags(e, i, push, name) == [err |-> e, i |-> i, push |-> push, name |-> name]

\* the flags of parsePerlFlags from position j: of the flags i, m, s and U
\* only U is upper-case; a "-" wants a flag after it
RECURSIVE flagLoop(_, _, _, _)
flagLoop(t, j, negated, sawFlag) ==
    IF j > Len(t) THEN PerlFlags(ErrInvalidPerlOp, j, "", <<>>)
    ELSE CASE t[j] = "U" -> flagLoop(t, j + 1, negated, TRUE)
           [] t[j] = "-" ->
                IF negated THEN PerlFlags(ErrInvalidPerlOp, j, "", <<>>)
                ELSE flagLoop(t, j + 1, TRUE, FALSE)
           [] t[j] \in {":", ")"} ->
                IF negated /\ ~sawFlag THEN PerlFlags(ErrInvalidPerlOp, j, "", <<>>)
                ELSE PerlFlags("", j + 1, IF t[j] = ":" THEN "group" ELSE "", <<>>)
           [] OTHER -> PerlFlags(ErrInvalidPerlOp, j, "", <<>>)

\* the named group whose name starts at position start; a name may be used
\* by more than one group
namedCapture(t, i, start) ==
    IF IndexFrom(t, i, ">") = 0 THEN PerlFlags(ErrInvalidNamedCapture, i, "", <<>>)
    ELSE LET end  == IndexFrom(t, i, ">")
             name == SubSeq(t, start, end - 1)
         IN IF name = <<>> \/ \E k \in DOMAIN name : ~isWordChar(name[k])
            THEN PerlFlags(ErrInvalidNamedCapture, i, "", <<>>)
            ELSE PerlFlags("", end + 1, "capture", name)

\* parser.parsePerlFlags at "(?" at position i: (?P<name>, (?<name>, or
\* flags that open a group or not
parsePerlFlags(t, i) ==
    IF Len(t) - i + 1 > 4 /\ t[i + 2] = "P" /\ t[i + 3] = "<"
    THEN namedCapture(t, i, i + 4)
    ELSE IF Len(t) - i + 1 > 3 /\ t[i + 2] = "<"
    THEN namedCapture(t, i, i + 3)
    ELSE flagLoop(t, i + 2, FALSE, FALSE)

\* the position of the last pseudo-operator of ops on the stack, 0 if none
lastMarker(stk, ops) ==
    IF \E k \in DOMAIN stk : stk[k].op \in ops
    THEN CHOOSE k \in DOMAIN stk :
             stk[k].op \in ops /\ \A j \in (k + 1)..Len(stk) : stk[j].op \notin ops
    ELSE 0

\* the nodes res joined by the operator op, two at a time
RECURSIVE joined(_, _)
joined(op, res) ==
    IF Len(res) = 1 THEN res[1]
    ELSE [Regexp(op) EXCEPT !.n = 2, !.a = res[1], !.b = joined(op, Tail(res))]

\* parser.concat: what is on the stack above the last "(" or "|" becomes
\* one concatenation, the empty match if there is nothing
concat(stk) ==
    LET m == lastMarker(stk, {opLeftParen, opVerticalBar})
    IN SubSeq(stk, 1, m)
         \o << IF m = Len(stk) THEN Regexp("empty")
               ELSE joined("concat", SubSeq(stk, m + 1, Len(stk))) >>

\* parser.alternate after concat: the concatenations above the last "("
\* become one alternation
notVerticalBar(re) == re.op # opVerticalBar

alternate(stk) ==
    LET m == lastMarker(stk, {opLeftParen})
    IN SubSeq(stk, 1, m)
         \o << joined("alt", SelectSeq(SubSeq(stk, m + 1, Len(stk)), notVerticalBar)) >>

\* the state of the parser: where it is in the pattern, its stack, whether
\* a repetition was the last thing read
Parser(e, i, stk, lastRepeat) ==
    [err |-> e, i |-> i, stack |-> stk, lastRepeat |-> lastRepeat]

\* something that is no repetition is pushed
pushed(p, re, i) == Parser("", i, Append(p.stack, re), FALSE)

failed(p, e) == Parser(e, p.i, p.stack, FALSE)

\* parser.repeat: the repetition op of min to max on the top of the stack,
\* the pattern going on at after; a "?" behind it makes it non-greedy
repeat(t, p, op, min, max, after) ==
    IF p.lastRepeat THEN failed(p, ErrInvalidRepeatOp)
    ELSE IF p.stack = <<>> \/ p.stack[Len(p.stack)].op \in {opLeftParen, opVerticalBar}
    THEN failed(p, ErrMissingRepeatArgument)
    ELSE LET re == [Regexp(op) EXCEPT !.n = 1, !.a = p.stack[Len(p.stack)],
                                      !.min = min, !.max = max]
         IN IF op = "repeat" /\ (min >= 2 \/ max >= 2) /\ ~repeatIsValid(re, 1000)
            THEN failed(p, ErrInvalidRepeatSize)
            ELSE Parser("", IF after <= Len(t) /\ t[after] = "?" THEN after + 1 ELSE after,
                        SubSeq(p.stack, 1, Len(p.stack) - 1) \o <<re>>, TRUE)

\* a "{" at the position of the parser: a repetition, or a literal when it
\* is not of the form {n}, {n,} or {n,m}
braces(t, p, r) ==
    IF ~r.ok THEN pushed(p, Literal("{"), p.i + 1)
    ELSE IF r.min < 0 \/ r.min > 1000 \/ r.max > 1000 \/ (r.max >= 0 /\ r.min > r.max)
    THEN failed(p, ErrInvalidRepeatSize)
    ELSE repeat(t, p, "repeat", r.min, r.max, r.i)

\* parser.parseRightParen: the group is closed
parseRightParen(p, stk) ==
    IF Len(stk) < 2 \/ stk[Len(stk) - 1].op # opLeftParen
    THEN failed(p, ErrUnexpectedParen)
    ELSE Parser("", p.i + 1, SubSeq(stk, 1, Len(stk) - 2) \o <<stk[Len(stk)]>>,
                FALSE)

\* a "(?" at the position of the parser
perlGroup(p, f) ==
    IF f.err # "" THEN failed(p, f.err)
    ELSE Parser("", f.i,
                IF f.push = "" THEN p.stack ELSE Append(p.stack, Regexp(opLeftParen)),
                FALSE)

\* the literals of \Q...\E from position i up to position e
quoted(t, p, i, e, next) ==
    Parser("", next,
           IF e <= i THEN p.stack
           ELSE p.stack \o [k \in 1..(e - i) |-> Literal(t[i + k - 1])],
           FALSE)

\* an escaped rune
escaped(p, e) ==
    IF e.err # "" THEN failed(p, e.err) ELSE pushed(p, Literal(Rune(e.c)), e.i)

\* a class
classed(p, c) ==
    IF c.err # "" THEN failed(p, c.err) ELSE pushed(p, c.re, c.i)

\* a category outside of a class
categorized(p, u) ==
    IF u.err # "" THEN failed(p, u.err) ELSE pushed(p, CharClass(FALSE, {u.item}), u.i)

\* a "\" at the position of the parser: \A, \B, \Q...\E, a category, a Perl
\* class or an escaped rune; \C is not supported, \b and \z are lower-case
backslash(t, p) ==
    IF p.i + 1 > Len(t) THEN failed(p, ErrTrailingBackslash)
    ELSE CASE t[p.i + 1] = "A" -> pushed(p, Regexp("begin"), p.i + 2)
           [] t[p.i + 1] = "B" -> pushed(p, Regexp("nowordboundary"), p.i + 2)
           [] t[p.i + 1] = "C" -> failed(p, ErrInvalidEscape)
           [] t[p.i + 1] = "Q" ->
                IF \E k \in (p.i + 2)..(Len(t) - 1) : t[k] = "\\" /\ t[k + 1] = "E"
                THEN LET e == CHOOSE k \in (p.i + 2)..(Len(t) - 1) :
                                  /\ t[k] = "\\" /\ t[k + 1] = "E"
                                  /\ \A j \in (p.i + 2)..(k - 1) :
                                         ~(t[j] = "\\" /\ t[j + 1] = "E")
                     IN quoted(t, p, p.i + 2, e, e + 2)
                ELSE quoted(t, p, p.i + 2, Len(t) + 1, Len(t) + 1)
           [] t[p.i + 1] = "P" -> categorized(p, parseUnicodeClass(t, p.i))
           [] t[p.i + 1] \in {"D", "S", "W"} ->
                pushed(p, CharClass(FALSE, {ClassItem("perl", 0, 0, t[p.i + 1], FALSE)}),
                       p.i + 2)
           [] OTHER -> escaped(p, parseEscape(t, p.i))

\* one pass of the loop of syntax.parse, at the character of position p.i
parseStep(t, p) ==
    CASE t[p.i] = "(" ->
           IF p.i + 1 <= Len(t) /\ t[p.i + 1] = "?"
           THEN perlGroup(p, parsePerlFlags(t, p.i))
           ELSE pushed(p, Regexp(opLeftParen), p.i + 1)
      [] t[p.i] = "|" ->
           Parser("", p.i + 1, Append(concat(p.stack), Regexp(opVerticalBar)),
                  FALSE)
      [] t[p.i] = ")" -> parseRightParen(p, alternate(concat(p.stack)))
      [] t[p.i] = "^" -> pushed(p, Regexp("begin"), p.i + 1)
      [] t[p.i] = "$" -> pushed(p, Regexp("end"), p.i + 1)
      [] t[p.i] = "." -> pushed(p, Regexp("any"), p.i + 1)
      [] t[p.i] = "[" -> classed(p, parseClass(t, p.i))
      [] t[p.i] = "*" -> repeat(t, p, "star", 0, -1, p.i + 1)
      [] t[p.i] = "+" -> repeat(t, p, "plus", 1, -1, p.i + 1)
      [] t[p.i] = "?" -> repeat(t, p, "quest", 0, 1, p.i + 1)
      [] t[p.i] = "{" -> braces(t, p, parseRepeat(t, p.i))
      [] t[p.i] = "\\" -> backslash(t, p)
      [] OTHER -> pushed(p, Literal(t[p.i]), p.i + 1)

\* the loop of syntax.parse
RECURSIVE parseLoop(_, _)
parseLoop(t, p) ==
    IF p.err # "" \/ p.i > Len(t) THEN p
    ELSE parseLoop(t, parseStep(t, p))

\* the end of syntax.parse: a "(" left on the stack is not closed
parsed(p) ==
    IF p.err # "" THEN [err |-> p.err, re |-> Regexp("empty")]
    ELSE IF Len(alternate(concat(p.stack))) # 1
    THEN [err |-> ErrMissingParen, re |-> Regexp("empty")]
    ELSE [err |-> "", re |-> alternate(concat(p.stack))[1]]

\* regexp.Compile: the error, or the parsed expression
Compile(expr) == parsed(parseLoop(expr, Parser("", 1, <<>>, FALSE)))

\* rune i of s is a word character
wordAt(s, i) == i >= 1 /\ i <= Len(s) /\ isWordChar(s[i])

\* the positions behind the matches of re in s that start at a position of
\* from
RECURSIVE matchEnds(_, _, _)
matchEnds(re, s, from) ==
    CASE re.op = "lit" -> { i + 1 : i \in { j \in from : j <= Len(s) /\ s[j] = re.ch } }
      [] re.op = "any" -> { i + 1 : i \in { j \in from : j <= Len(s) /\ s[j] # "\n" } }
      [] re.op = "class" ->
           { i + 1 : i \in { j \in from : j <= Len(s) /\ inClass(re, s[j]) } }
      [] re.op = "empty" -> from
      [] re.op = "begin" -> from \cap {1}
      [] re.op = "end" -> from \cap {Len(s) + 1}
      [] re.op = "nowordboundary" ->
           { i \in from : wordAt(s, i - 1) = wordAt(s, i) }
      [] re.op = "concat" -> matchEnds(re.b, s, matchEnds(re.a, s, from))
      [] re.op = "alt" -> matchEnds(re.a, s, from) \cup matchEnds(re.b, s, from)
      [] re.op = "quest" -> from \cup matchEnds(re.a, s, from)
      [] re.op = "plus" ->
           matchEnds([re EXCEPT !.op = "star"], s, matchEnds(re.a, s, from))
      [] re.op = "star" ->
           LET once == matchEnds(re.a, s, from)
           IN IF once \subseteq from THEN from
              ELSE matchEnds(re, s, from \cup once)
      [] re.op = "repeat" ->
           \* once the positions no longer change, more passes change nothing
           LET once == matchEnds(re.a, s, from)
           IN IF re.min > 0
              THEN IF once = from THEN from
                   ELSE matchEnds([re EXCEPT !.min = re.min - 1,
                                             !.max = IF re.max < 0 THEN -1 ELSE re.max - 1],
                                  s, once)
              ELSE IF re.max = 0 \/ once \subseteq from THEN from
              ELSE IF re.max < 0 THEN matchEnds([re EXCEPT !.op = "star"], s, from)
              ELSE from \cup matchEnds([re EXCEPT !.max = re.max - 1], s, once)

\* Regexp.MatchString: the expression matches somewhere in s
MatchString(re, s) == matchEnds(re, s, 1..(Len(s) + 1)) # {}

----------------------------------------------------------------------------
(* Unused: the variables under the prefix that no field reads.             *)

\* unused.go lines 55-61: the prefix is put into the expression as it is,
\* so what it holds of the syntax of expressions is read as such
applicableRegex(pfx) ==
    IF pfx = <<>> THEN Compile(<<".", "+">>)
    ELSE Compile(<<"^">> \o ToUpper(pfx) \o <<"_">>)

\* the error of regexp.Compile
RegexpError(code) == [kind |-> "regexp", code |-> code]

\* unused.go lines 23-29: used, the Key of every varInfo and its Alt if any
used(infs) ==
    { infs[i].Key : i \in 1..Len(infs) }
        \cup { infs[i].Alt : i \in { j \in 1..Len(infs) : infs[j].Alt # <<>> } }

\* unused.go lines 31-41: the names of os.Environ() in its order, those that
\* match and are not used appended to unused
RECURSIVE unusedScan(_, _, _, _, _)
unusedScan(re, usedNames, names, i, unused) ==
    IF i > Len(names) THEN unused
    ELSE IF ~MatchString(re, names[i])
    THEN unusedScan(re, usedNames, names, i + 1, unused)
    ELSE IF names[i] # <<>> /\ names[i] \notin usedNames
    THEN unusedScan(re, usedNames, names, i + 1, Append(unused, names[i]))
    ELSE unusedScan(re, usedNames, names, i + 1, unused)

\*   type Service struct {
\*       Name string
\*       Sub  Sub
\*       Host string `envconfig:"svc"`
\*       Note string `ignored:"true"`
\*   }
ServiceT ==
    TStruct(<< Field(<<"N","a","m","e">>, TString, NoTag),
               Field(<<"S","u","b">>, SubT, NoTag),
               Field(<<"H","o","s","t">>, TString,
                     Tag(<< <<keyEnvconfig, <<"s","v","c">>>> >>)),
               Field(<<"N","o","t","e">>, TString,
                     Tag(<< <<keyIgnored, <<"t","r","u","e">>>> >>)) >>)

pfxDot == <<"a", ".", "b">>

pfxBar == <<"p", "|", "q">>

pfxParen == <<"(">>

ServiceKeys(pfx) ==
    IF pfx = <<>>
    THEN { <<"N","A","M","E">>, <<"S","U","B","_","F","L","A","G">>,
           <<"F","L","A","G">>, <<"S","V","C">>, <<"H","O","S","T">>,
           <<"S","U","B","_","A">>, <<"N","O","T","E">>, <<"\n">> }
    ELSE IF pfx = pfxDot
    THEN { <<"A",".","B","_","N","A","M","E">>, <<"A",".","B","_","X">>,
           <<"A","X","B","_","N","A","M","E">>, <<"A","\n","B","_","X">>,
           <<"S","V","C">>, <<"A","B","_","X">> }
    ELSE IF pfx = pfxBar
    THEN { <<"P","|","Q","_","N","A","M","E">>, <<"P","|","Q","_","X">>,
           <<"P","O","R","T">>, <<"Z","Q","_","X">>, <<"Q","_">>, <<"Q">> }
    ELSE IF pfx = pfxParen
    THEN { <<"(","_","N","A","M","E">>, <<"(","_","X">>, <<"X">> }
    ELSE { <<"P","_","N","A","M","E">>, <<"P","_","S","U","B","_","F","L","A","G">>,
           <<"F","L","A","G">>, <<"P","_","S","V","C">>, <<"S","V","C">>,
           <<"P","_","S","U","B","_","A">>, <<"P","_","H","O","S","T">>,
           <<"N","A","M","E">> }

\* the calls of Unused: Service records with and without a prefix, a
\* record passed by value, prefixes that hold ".", "|" and "(", a record with
\* a slice of structs and a record that refers to itself
UnusedCases(family) ==
    CASE family = 1 ->
           { Input(p, TPtr(ServiceT), <<Zero(ServiceT)>>, ServiceKeys(p), AuditValues) :
               p \in { <<>>, pfxP } }
      [] family = 2 ->
           { Input(pfxP, ServiceT, Zero(ServiceT), ServiceKeys(pfxP), AuditValues) }
      [] family = 3 ->
           { Input(p, TPtr(ServiceT), <<Zero(ServiceT)>>, ServiceKeys(p), AuditValues) :
               p \in { pfxDot, pfxBar, pfxParen } }
      [] family = 4 ->
           { Input(pfxP, TPtr(PlainT), <<Zero(PlainT)>>,
                   PlainKeys \cup { <<"P","_","X">> }, AuditValues) }
      [] family = 5 ->
           { Input(pfxP, TPtr(NodeT), <<Zero(NodeT)>>, NodeKeys, AuditValues) }

UnusedFamilies == 1..5

InitUnused ==
    \E family \in UnusedFamilies : \E c \in UnusedCases(family) :
        /\ prefix = c.prefix
        /\ env \in Environments(c.keys, c.values)
        /\ spec = [typ |-> c.typ, val |-> c.val]
        /\ spec0 = c.val
        /\ stack = <<>>
        /\ infos = <<>>
        /\ idx = 0
        /\ value = <<>>
        /\ ok = FALSE
        /\ err = NoErr
        /\ pc = "call"

\* unused.go lines 22-43: after gatherInfo, whose error is not looked at,
\* the names of the environment are ranged over; value is the list returned
Unused ==
    /\ pc = "loop"
    /\ \E names \in Orders(DOMAIN env) :
           value' = unusedScan(applicableRegex(prefix).re, used(infos), names, 1, <<>>)
    /\ err' = NoErr
    /\ pc' = "listed"
    /\ UNCHANGED <<prefix, env, spec, spec0, stack, infos, idx, ok>>

\* unused.go lines 16-22: the expression is compiled before anything else,
\* and its error is returned with no list; else gatherInfo is entered, as
\* CheckDisallowed enters it: on the environment, not for usage
UnusedCall ==
    /\ pc = "call"
    /\ IF applicableRegex(prefix).err # ""
       THEN /\ err' = RegexpError(applicableRegex(prefix).err)
            /\ pc' = "listed"
            /\ UNCHANGED <<prefix, env, spec, spec0, stack, infos, idx, value, ok>>
       ELSE Call

NextUnused ==
    \/ UnusedCall
    \/ GatherIgnored
    \/ GatherLeaf
    \/ GatherStruct
    \/ StackOverflow
    \/ GatherSlice
    \/ GatherSliceErr
    \/ GatherElem
    \/ GatherReturn
    \/ Unused

SpecUnused == InitUnused /\ [][NextUnused]_vars

----------------------------------------------------------------------------
(* Usagef: the varInfos are gathered for usage (gatherInfoForUsage: an     *)
(* empty map for env, forUsage true) and the template is executed on them. *)
(* The template of the model is                                            *)
(*   {{range .}}{{usage_key .}} {{usage_default .}} {{usage_required .}}   *)
(*   {{end}}                                                               *)
(* and what it writes is kept in value, one row for each varInfo.          *)

\* usage_required of Usagef: the tag, "true" for every spelling of true, or
\* the error of strconv.ParseBool
usageRequired(v) ==
    LET req == v.Tags.required
        b   == ParseBool(req)
    IN IF req = <<>> THEN [ok |-> TRUE, val |-> req]
       ELSE IF ~b.ok THEN [ok |-> FALSE, val |-> <<>>]
       ELSE [ok |-> TRUE, val |-> IF b.val THEN <<"t","r","u","e">> ELSE req]

\* tmpl.Execute(out, infos): the rows written. Execute writes as it goes,
\* so that the row of the first varInfo usage_required fails on is written
\* up to that function: it holds the key and the default only
RECURSIVE usageRows(_, _, _)
usageRows(infs, i, rows) ==
    IF i > Len(infs) THEN [ok |-> TRUE, rows |-> rows]
    ELSE IF ~usageRequired(infs[i]).ok
    THEN [ok |-> FALSE,
          rows |-> Append(rows, <<infs[i].Key, infs[i].Tags.default>>)]
    ELSE usageRows(infs, i + 1,
                   Append(rows, <<infs[i].Key, infs[i].Tags.default,
                                  usageRequired(infs[i]).val>>))

TemplateError == [kind |-> "template"]

\* required:"true", required:"1", a required tag that is no boolean, none
UsageTags ==
    { Tag(<< <<keyEnvconfig, a>>, <<keyDefault, d>>, <<keyRequired, r>> >>) :
        a \in { <<>>, <<"s","v","c">> },
        d \in { <<>>, <<"d">> },
        r \in { <<>>, <<"t","r","u","e">>, <<"1">>, <<"x">> } }

UsageCases(family) ==
    CASE family = 1 ->
           { Input(p, TPtr(TaggedT(tag)), <<v>>, {}, {}) :
               p \in { <<>>, pfxP }, tag \in UsageTags, v \in TaggedVals }
      [] family = 2 ->
           { Input(p, TPtr(NestedT), <<v>>, {}, {}) :
               p \in { <<>>, pfxP, pfxPercent }, v \in NestedVals }
      [] family = 3 ->
           { Input(pfxP, TaggedT(NoTag), << 7, <<"h">>, <<5>> >>, {}, {}) }
      [] family = 4 ->
           { Input(pfxP, TPtr(t), <<Zero(t)>>, {}, {}) : t \in {PlainT, NodeT, OuterT} }

UsageFamilies == 1..4

InitUsage ==
    \E family \in UsageFamilies : \E c \in UsageCases(family) :
        /\ prefix = c.prefix
        /\ env = <<>>
        /\ spec = [typ |-> c.typ, val |-> c.val]
        /\ spec0 = c.val
        /\ stack = <<>>
        /\ infos = <<>>
        /\ idx = 0
        /\ value = <<>>
        /\ ok = FALSE
        /\ err = NoErr
        /\ pc = "call"

\* gatherInfoForUsage and lines 69-79 of gatherInfo: the outermost call,
\* with forUsage true
CallUsage ==
    /\ pc = "call"
    /\ IF invalidSpecification(spec.typ, spec.val)
       THEN err' = ErrInvalidSpecification /\ stack' = <<>> /\ pc' = "loop"
       ELSE /\ stack' = << Frame("fields", prefix, spec.typ.elem, <<1>>, 1,
                                 FALSE, TRUE) >>
            /\ pc' = "gather"
            /\ UNCHANGED err
    /\ idx' = 1
    /\ UNCHANGED <<prefix, env, spec, spec0, infos, value, ok>>

\* Usaget: the error of gatherInfo is returned, else the template is
\* executed and its error, if any, is returned
Usaget ==
    /\ pc = "loop"
    /\ IF err # NoErr THEN UNCHANGED <<value, err>>
       ELSE LET r == usageRows(infos, 1, <<>>)
            IN /\ value' = r.rows
               /\ err' = IF r.ok THEN NoErr ELSE TemplateError
    /\ pc' = "done"
    /\ UNCHANGED <<prefix, env, spec, spec0, stack, infos, idx, ok>>

NextUsage ==
    \/ CallUsage
    \/ GatherIgnored
    \/ GatherLeaf
    \/ GatherStruct
    \/ StackOverflow
    \/ GatherSlice
    \/ GatherElem
    \/ GatherReturn
    \/ Usaget

SpecUsage == InitUsage /\ [][NextUsage]_vars

----------------------------------------------------------------------------
(* Properties of Unused (SpecUnused).                                      *)

listed == pc = "listed"

\* the names the call returned
reported == { value[i] : i \in 1..Len(value) }

\* C22 as stated: for a spec that is a pointer to a record, Unused returns exactly the
\* names of the environment under the prefix (all names that are not empty
\* when the prefix is empty) that are neither the canonical key nor the
\* alias of a field, fields of nested records included, each name once, and
\* no error; with a prefix, no name outside the prefix is returned
C22_AsStated ==
    listed /\ validSpec =>
        /\ err = NoErr
        /\ reported = { k \in audited : k # <<>> } \ (canonicalKeys \cup aliasKeys)
        /\ Len(value) = Cardinality(reported)
        /\ prefix # <<>> =>
               \A k \in reported : HasPrefix(k, ToUpper(prefix) \o <<"_">>)

----------------------------------------------------------------------------
(* Properties of the keys of fields inside a slice of structs (Spec).      *)

\* the varInfo is that of a field of an element of a slice of structs of the
\* record, and the field declares an alias
aliasedInElement(i) ==
    /\ insideElement(i)
    /\ Len(i.Field.path) = 5
    /\ i.Tags.envconfig # <<>>

\* the 0-based index of the element the varInfo lies in
elementIndex(i) == i.Field.path[4] - 1

\* C23 as stated: for a field with an alias inside an element past the first
\* of a slice of structs, the alias is suppressed and the key is formed from
\* the plain derived field name under the index-qualified prefix
C23_AsStated ==
    validSpec /\ gathered =>
        \A j \in 1..Len(infos) :
            aliasedInElement(infos[j]) /\ elementIndex(infos[j]) >= 1 =>
                /\ infos[j].Alt = <<>>
                /\ infos[j].Key =
                       elementPrefix(infos[j]) \o <<"_">> \o ToUpper(infos[j].Name)

\* s holds a "%"
hasPercent(s) == \E k \in 1..Len(s) : s[k] = "%"

\* C23, amended: for a field with an alias inside an element of a slice of
\* structs, the first element included, the alias key is void and the key
\* ends with the alias; the key is the alias under the index-qualified
\* prefix (the prefix of the slice, "_" and the index in decimal) whenever
\* the prefix of the slice holds no "%"
C23_AliasNamesKeyInEveryElement ==
    validSpec /\ gathered =>
        \A j \in 1..Len(infos) :
            aliasedInElement(infos[j]) =>
                /\ infos[j].Alt = <<>>
                /\ HasSuffix(infos[j].Key,
                             <<"_">> \o ToUpper(infos[j].Tags.envconfig))
                /\ ~hasPercent(slicePrefix(infos[j].Field.path[2])) =>
                       infos[j].Key =
                           elementPrefix(infos[j]) \o <<"_">>
                             \o ToUpper(infos[j].Tags.envconfig)

\* a slice of two elements has been made, and the field with an alias has
\* been gathered for the first and for the second
C23_Witness ==
    /\ validSpec /\ gathered
    /\ \E j, k \in 1..Len(infos) :
          /\ aliasedInElement(infos[j]) /\ elementIndex(infos[j]) = 0
          /\ aliasedInElement(infos[k]) /\ elementIndex(infos[k]) = 1
          /\ infos[k].Key # elementPrefix(infos[k]) \o <<"_">> \o ToUpper(infos[k].Name)

----------------------------------------------------------------------------
(* Properties of embedded structs that declare an alias (Spec).            *)

\* the varInfo is that of a field of an embedded struct of the record, and
\* the embedded field declares an alias
inAliasedEmbedded(i) ==
    /\ inRootStruct(i)
    /\ rootFieldOf(i).anonymous
    /\ rootFieldOf(i).tag.envconfig # <<>>

\* the key of a field of a struct field of the record when the struct has a
\* segment of its own, made of its alias
keyUnderAlias(i) ==
    ToUpper(canonical(rootFieldOf(i).tag.envconfig) \o <<"_">>
                \o aliasOrName(innerFieldOf(i)))

\* C24 as stated: an embedded record that declares an alias is not flattened:
\* its fields are resolved under parent prefix + "_" + alias, as for a named
\* nested record
C24_AsStated ==
    validSpec /\ gathered =>
        \A j \in 1..Len(infos) :
            inAliasedEmbedded(infos[j]) => infos[j].Key = keyUnderAlias(infos[j])

\* what the code does: the fields of an embedded record are resolved under
\* the prefix of the parent, whether the embedded field has an alias or not
C24_FlattenedAnyway ==
    validSpec /\ gathered =>
        \A j \in 1..Len(infos) :
            inAliasedEmbedded(infos[j]) =>
                infos[j].Key = canonical(aliasOrName(innerFieldOf(infos[j])))

\* Process returned nil and left at zero a field of an embedded record with
\* an alias while the variable under prefix + "_" + alias was set
C24_AliasKeyNotRead ==
    /\ pc = "done" /\ err = NoErr
    /\ \E j \in 1..Len(infos) :
          /\ inAliasedEmbedded(infos[j])
          /\ keyUnderAlias(infos[j]) \in DOMAIN env
          /\ stored(infos[j]) = Zero(infos[j].Field.typ)

----------------------------------------------------------------------------
(* Properties of the order in which errors are found (Spec).               *)

\* the varInfo of field f of the record, as it is before the call
rootInfo(f) ==
    LET ft == spec.typ.elem.fields[f]
        d  == derefField(ft.typ, Get(spec0, <<1, f>>))
    IN varInfoOf(prefix, ft, [path |-> <<1, f>> \o d.rel, typ |-> d.typ], FALSE)

\* the fields of the record that are resolved by one variable
rootLeaves ==
    { f \in 1..Len(spec.typ.elem.fields) :
        LET ft == spec.typ.elem.fields[f]
        IN /\ ft.exported /\ ~isTrue(ft.tag.ignored)
           /\ pointee(ft.typ).kind # "struct"
           /\ ~isSliceOfStructs(ft.typ) /\ ~isSliceOfStructPtrs(ft.typ) }

\* the field makes Process fail: it is required and has no value, or it has
\* a value that does not convert
failing(i) ==
    \/ requirementUnmet(i)
    \/ resolvable(i) /\ ~processField(raw(i), i.Field.typ, Zero(i.Field.typ)).ok

\* the error Process returned is that of the field
errorOf(i) ==
    IF requirementUnmet(i)
    THEN err = requiredErr(i)
    ELSE err.kind = "ParseError" /\ err.KeyName = i.Key /\ err.FieldName = i.Name

\* a slice of structs of the record whose index keys are malformed or leave
\* a gap
badScan == \E f \in rootSlices : ~scanSucceeds(slicePrefix(f))

\* C25 as stated, for the fields of the record itself: when a field that is
\* preceded by fields resolved by one variable only is the first to fail,
\* Process returns its error and the fields before it that have a value are
\* assigned, whatever the index keys of a slice of structs declared later
C25_AsStated ==
    pc = "done" /\ validSpec =>
        \A f \in rootLeaves :
            /\ 1..(f - 1) \subseteq rootLeaves
            /\ failing(rootInfo(f))
            /\ \A g \in 1..(f - 1) : ~failing(rootInfo(g))
            => /\ errorOf(rootInfo(f))
               /\ \A g \in 1..(f - 1) :
                     resolvable(rootInfo(g)) => assigned(rootInfo(g))

\* C25, amended: a malformed or non-contiguous index of a slice of structs of
\* the record is found while the fields are gathered: Process returns its
\* error, has looked up no variable and has assigned no field, wherever the
\* slice is declared.  Otherwise the error returned is the one of the first
\* field, in the order gathered, that fails, and the fields before it that
\* have a value are assigned.
C25_ScanErrorsComeFirst ==
    pc = "done" /\ validSpec =>
        IF badScan
        THEN /\ err.kind = "sliceLen"
             /\ infos = <<>>
             /\ \A f \in rootLeaves : Get(spec.val, <<1, f>>) = Get(spec0, <<1, f>>)
        ELSE \A j \in 1..Len(infos) :
                /\ failing(infos[j])
                /\ \A k \in 1..(j - 1) : ~failing(infos[k])
                => /\ idx = j
                   /\ errorOf(infos[j])
                   /\ \A k \in 1..(j - 1) :
                         resolvable(infos[k]) => assigned(infos[k])

\* Process returned the error of a malformed index of the last field of the
\* record while a field declared before it has a value that does not
\* convert, and left that field as it was
C25_Witness ==
    /\ pc = "done" /\ validSpec
    /\ badScan
    /\ err.kind = "sliceLen"
    /\ \E g \in rootLeaves :
          /\ failing(rootInfo(g))
          /\ resolvable(rootInfo(g))
          /\ Get(spec.val, <<1, g>>) = Get(spec0, <<1, g>>)
          /\ \E h \in rootSlices : g < h

----------------------------------------------------------------------------
(* Properties of pointer fields whose value does not convert (Spec).       *)

\* the field is a pointer that was nil before the call
wasNilPointer(i) ==
    /\ i.Field.typ.kind = "ptr"
    /\ HasPath(spec0, i.Field.path)
    /\ Get(spec0, i.Field.path) = NilPtr

\* C26 as stated: when Process returns the ParseError of a pointer field that
\* was nil before the call, the field is still nil
C26_AsStated ==
    failedWith("ParseError") /\ wasNilPointer(infos[idx]) =>
        stored(infos[idx]) = NilPtr

\* what the code does: the pointer is set to a new zero value before the raw
\* value is parsed, and the field points to it when the ParseError is returned
C26_PointsToZero ==
    failedWith("ParseError") /\ wasNilPointer(infos[idx]) =>
        stored(infos[idx]) = <<Zero(infos[idx].Field.typ.elem)>>

\* Process returned the ParseError of a pointer field that was nil
C26_NilPointerFailed ==
    /\ failedWith("ParseError")
    /\ wasNilPointer(infos[idx])
    /\ err.Value = <<"x">>

----------------------------------------------------------------------------
(* Properties of slices of structs without variables (Spec).               *)

\* the snapshot holds no key under the canonical prefix of slice field f,
\* nor under its alias prefix
unindexed(f) ==
    LET ft == spec.typ.elem.fields[f]
    IN /\ under(canonical(aliasOrName(ft))) = {}
       /\ ft.tag.envconfig # <<>> => under(ToUpper(ft.tag.envconfig)) = {}

\* what slice field f holds, and what it held before the call
sliceNow(f)    == Get(spec.val, <<1, f>>)
sliceBefore(f) == Get(spec0, <<1, f>>)

\* C27 as stated: a slice of structs without any indexed key in the snapshot
\* holds after Process the elements it held before the call
C27_AsStated ==
    pc = "done" /\ validSpec =>
        \A f \in rootSlices : unindexed(f) => sliceNow(f) = sliceBefore(f)

\* C27, amended: a slice of structs without any indexed key in the snapshot
\* is, once the fields are gathered, an empty slice that is not nil, whatever
\* it held before the call
C27_UnindexedSliceIsEmptied ==
    pc = "done" /\ validSpec /\ err.kind # "sliceLen" =>
        \A f \in rootSlices : unindexed(f) => sliceNow(f) = <<FALSE, <<>>>>

\* Process returned nil for a record whose slice of structs held an element
\* before the call, without any indexed key in the snapshot
C27_Witness ==
    /\ pc = "done" /\ validSpec /\ err = NoErr
    /\ \E f \in rootSlices :
          /\ unindexed(f)
          /\ Len(sliceBefore(f)[2]) = 1
          /\ sliceNow(f) = <<FALSE, <<>>>>

----------------------------------------------------------------------------
(* Properties of the keys counted by sliceLen (Spec).                      *)

\* the prefix of element e (0-based) of slice field f
prefixOfElement(f, e) == slicePrefix(f) \o <<"_">> \o Itoa(e)

\* key k lies under the prefix of an element: it begins with it, and "_" or
\* the end of the key follows
liesUnder(k, ep) ==
    /\ HasPrefix(k, ep)
    /\ Len(k) = Len(ep) \/ k[Len(ep) + 1] = "_"

\* the slices of structs of the record whose scan succeeded
scanned == { f \in rootSlices : scanSucceeds(slicePrefix(f)) }

\* C28 as stated: every key that contributes index i to a successful scan
\* lies under the prefix of element i, so that each of the n elements made
\* has at least one key of the snapshot under its own prefix, leading zeros
\* in the spelling of an index included
C28_AsStated ==
    validSpec /\ gathered /\ err.kind # "sliceLen" =>
        \A f \in scanned :
            /\ \A k \in under(slicePrefix(f)) :
                  liesUnder(k, prefixOfElement(f, indexOf(k, slicePrefix(f))))
            /\ \A e \in 0..(Len(sliceNow(f)[2]) - 1) :
                  \E k \in DOMAIN env : liesUnder(k, prefixOfElement(f, e))

\* what the code does: a key lies under the prefix of the element it is
\* counted for unless its index is spelled with a leading zero
C28_UnlessLeadingZero ==
    validSpec /\ gathered /\ err.kind # "sliceLen" =>
        \A f \in scanned : \A k \in under(slicePrefix(f)) :
            \/ liesUnder(k, prefixOfElement(f, indexOf(k, slicePrefix(f))))
            \/ /\ k[Len(slicePrefix(f)) + 2] = "0"
               /\ digitRun(k, Len(slicePrefix(f)) + 2) > 1

\* Process returned nil after it made one element for a key whose index is
\* spelled 00; no key of the snapshot lies under the prefix of the element
C28_ElementWithoutKey ==
    /\ pc = "done" /\ validSpec /\ err = NoErr
    /\ \E f \in scanned :
          /\ Len(sliceNow(f)[2]) = 1
          /\ \A k \in DOMAIN env : ~liesUnder(k, prefixOfElement(f, 0))

----------------------------------------------------------------------------
(* Properties of the order in which the snapshot is ranged over (Spec).    *)

\* gatherInfo is at a slice of structs, about to call sliceLen
atSlice ==
    /\ onField
    /\ ~ignoredField
    /\ custom(deref.typ) = ""
    /\ isSliceOfStructPtrs(deref.typ) \/ isSliceOfStructs(deref.typ)

\* a string without its last character
Front(s) == SubSeq(s, 1, Len(s) - 1)

\* the keys under the prefix an error of sliceLen names that are not an
\* index followed by "_" or the end
malformed(p) == { k \in under(p) : ~wellFormed(k, p) }

\* C29 as stated: the error Process returns, the key it names included, is
\* the same in whatever order the keys of the snapshot are ranged over
C29_AsStated ==
    pc = "done" /\ err.kind = "sliceLen" =>
        \A order \in Orders(DOMAIN env) : sliceLen(Front(err.prefix), order).err = err

\* C29, amended: the length and the prefix found for a slice of structs, and
\* whether its scan fails, do not depend on the order in which the keys are
\* ranged over, nor does the error of a gap in the indices; the error of a
\* malformed key names one of the malformed keys under the prefix, the first
\* the range yields
C29_OrderChoosesOnlyTheKeyNamed ==
    /\ atSlice =>
          \A o1, o2 \in Orders(DOMAIN env) :
              LET a == sliceInfo(info, o1, top.inside)
                  b == sliceInfo(info, o2, top.inside)
              IN /\ a.l = b.l
                 /\ a.prefix = b.prefix
                 /\ a.err.kind = b.err.kind
                 /\ a.err.kind = "sliceLen" =>
                       /\ a.err.prefix = b.err.prefix
                       /\ a.err.why = "index unset" <=> b.err.why = "index unset"
                       /\ a.err.why = "index unset" => a.err = b.err
    /\ pc = "done" /\ err.kind = "sliceLen" /\ err.why # "index unset" =>
          err.key \in malformed(Front(err.prefix))

\* Process returned the error of one of two malformed keys under the prefix
\* of a slice of structs
C29_Witness ==
    /\ pc = "done"
    /\ err.kind = "sliceLen"
    /\ err.why # "index unset"
    /\ Cardinality(malformed(Front(err.prefix))) = 2

----------------------------------------------------------------------------
(* newReaderLookupEnvFunc on buffers with lines that have no "=".          *)

\* lines KEY=VALUE whose key has no "_", with a value or with none
AssignLines ==
    { k \o <<"=">> \o v :
        k \in { <<"U","S","E","R">>, <<"A","B">> },
        v \in { <<"x","-","g">>, <<"1">>, <<>> } }

\* lines without "="
BareLines == { <<"j","k">>, <<"U","S","E","R">> }

\* one or two lines of either sort, the last one with or without its newline
MixedBuffers ==
    LET ends  == { <<>>, <<"\n">> }
        lines == AssignLines \cup BareLines
    IN { l \o e : l \in lines, e \in ends }
       \cup { l1 \o <<"\n">> \o l2 \o e : l1 \in lines, l2 \in lines, e \in ends }

InitMixed ==
    /\ spec \in { Reader(b, FALSE) : b \in MixedBuffers }
    /\ env = <<>>
    /\ pc = "read"
    /\ prefix = <<>>
    /\ spec0 = <<>>
    /\ stack = <<>>
    /\ infos = <<>>
    /\ idx = 0
    /\ value = <<>>
    /\ ok = FALSE
    /\ err = NoErr

SpecMixed == InitMixed /\ [][NextReader]_vars

----------------------------------------------------------------------------
(* Properties of the reader on such buffers (SpecMixed).                   *)

\* the lines of the buffer that contain "=", by their number
assignLines ==
    { j \in 1..pieceCount(spec.val, "\n") :
        pieceCount(piece(spec.val, "\n", j), "=") >= 2 }

\* the value of the last line KEY=VALUE of key k
lastAssigned(k) ==
    lineValue(CHOOSE j \in assignLines :
                  /\ lineKey(j) = k
                  /\ \A i \in assignLines : lineKey(i) = k => i <= j)

\* the map the lines KEY=VALUE of the buffer describe
described ==
    [k \in { lineKey(j) : j \in assignLines } |-> lastAssigned(k)]

\* C30 as stated: the map holds an entry for each key of a line KEY=VALUE,
\* with the VALUE of the last such line, and no other entry: a line without
\* "=" creates and changes none, and the last line is recorded whether or
\* not a newline ends it, an empty VALUE included
C30_AsStated ==
    built =>
        /\ DOMAIN env = DOMAIN described
        /\ \A k \in DOMAIN described :
              readerLookup(k) = [value |-> described[k], ok |-> TRUE]

\* what the code does: the claim holds for the buffers in which every line
\* contains "=" and the last line has a value or ends with a newline
C30_AssignmentsOnly ==
    /\ built
    /\ \A j \in 1..pieceCount(spec.val, "\n") :
          piece(spec.val, "\n", j) # <<>> => j \in assignLines
    /\ spec.val[Len(spec.val)] # "="
    => /\ DOMAIN env = DOMAIN described
       /\ \A k \in DOMAIN described :
             readerLookup(k) = [value |-> described[k], ok |-> TRUE]

\* a line without "=" replaced the value of the line before it
C30_EntryChanged ==
    /\ built
    /\ spec.val = <<"U","S","E","R","=","1","\n","j","k","\n">>
    /\ readerLookup(<<"U","S","E","R">>) = [value |-> <<"j","k">>, ok |-> TRUE]

\* a last line with an empty value and no newline left no entry
C30_LastLineLost ==
    /\ built
    /\ spec.val = <<"A","B","=">>
    /\ ~readerLookup(<<"A","B">>).ok

====
